---- MODULE Spec2Model ----
(***************************************************************************)
(* Verification model of the ENGAPP assessment core (backend-ai).          *)
(*                                                                         *)
(* Part A  - AnalysisService.analyze, the multi-stage orchestrator         *)
(*           (app/services/analysis_service.py) with the grammar           *)
(*           classifier it calls (app/assessment/scoring/                  *)
(*           grammar_classifier.py) and the CEFR classifier                *)
(*           (app/services/cefr_classifier.py).      Specification: Spec   *)
(* Part B  - HinglishSTTService soft assessment: phoneme pass, text pass,  *)
(*           merge (app/services/hinglish_stt_service.py).                 *)
(*                                                   Specification: SpecSoft*)
(*                                                                         *)
(* Scores are integers 0..100.  The weighted overall score is kept times   *)
(* 100 (overall100) so that the weights 0.25/0.20/0.25/0.30 stay exact.    *)
(***************************************************************************)
EXTENDS Integers, Sequences, FiniteSets, TLC

VARIABLES
    \* ---- Part A: one analyze() call ----
    configured,       \* self.model is not None
    pc,               \* position of the analyze coroutine
    task,             \* status of each of the four gathered analyzer tasks
    raw,              \* what each analyzer task returned (the parsed LLM dict)
    grammar_data,     \* classify_errors result (analysis_service.py:470)
    vocab_data,       \* analyze_vocabulary result (analysis_service.py:474)
    all_errors,       \* gemini_grammar["grammatical_errors"] (line 480)
    vi,               \* number of entries of all_errors the verify loop has consumed
    verdicts,         \* outcome of the validity check of each consumed entry
    verified_errors,  \* the list _verify_error_corrections builds
    synthSaw,         \* task statuses seen when _synthesize_scores was entered
    metrics,          \* AnalysisMetrics built by _synthesize_scores
    outcome,          \* how the call ended
    \* ---- Part B: one transcribe_with_soft_assessment() call ----
    spc,              \* position of the soft-assessment call
    sText,            \* transcription["text"], a sequence of characters
    sAzure,           \* outcome of the recognizer call in _soft_pronunciation_pass
    sWords,           \* words_data (WordDetail list); mutated by the phoneme pass
    sWordsIn,         \* words_data as constructed, before the phoneme pass ran
    phoneme_insights, \* result of pass 2
    text_insights,    \* result of pass 3
    merged,           \* _merge_insights result
    pi,               \* the "phonetic_insights" entry handed to the caller
    \* ---- Part C: one call of a scoring function ----
    cpc,              \* position of the call
    cfn,              \* the function called
    carg,             \* its arguments
    cres,             \* what it returned
    \* ---- Part D: one ConnectedSpeechAnalyzer instance ----
    linking_examples,   \* self.linking_examples
    reduction_examples, \* self.reduction_examples
    an_arg,             \* the arguments of the latest analyze() call
    an_res,             \* what that call returned or raised
    \* ---- Part E: the rate limiter and the WebSocket tutor connections ----
    active_sessions,  \* rate_limiter.active_sessions: user id -> count
    hpc,              \* position of each connection's websocket_tutor_session
    user_id,          \* the user id each handler works with
    closed,           \* the idle checker has closed the connection's socket
    started,          \* start_session calls made by each handler
    ended             \* end_session calls made by each handler

varsA == <<configured, pc, task, raw, grammar_data, vocab_data, all_errors, vi,
           verdicts, verified_errors, synthSaw, metrics, outcome>>
varsB == <<spc, sText, sAzure, sWords, sWordsIn, phoneme_insights, text_insights,
           merged, pi>>
varsC == <<cpc, cfn, carg, cres>>
varsD == <<linking_examples, reduction_examples, an_arg, an_res>>
varsE == <<active_sessions, hpc, user_id, closed, started, ended>>
vars == <<varsA, varsB, varsC, varsD, varsE>>

(***************************************************************************)
(* Bounds of the model.                                                    *)
(***************************************************************************)
MaxErrors == 2       \* longest grammatical_errors list an analyzer returns
MaxPhonemes == 2     \* most phonemes per recognised word
MaxTierErrors == 20  \* most errors of one tier in a grammar answer
MaxStructs == 3      \* most sentence structures in a grammar answer
MaxWords == 3        \* most words of an utterance handed to the connected-speech analyzer
MaxConns == 3        \* WebSocket connections made to the tutor route
MaxRepeats == 8      \* times a phrase is repeated in a long utterance
MaxLinks == 25       \* linking opportunities of the longest utterance
MaxSample == 51      \* longest sample (seconds or words) handed to the confidence calculator

(***************************************************************************)
(* Python helpers.                                                         *)
(***************************************************************************)
\* dict.get(key, default) on an optional entry
Absent == [present |-> FALSE, v |-> 0]
Some(x) == [present |-> TRUE, v |-> x]
Get(entry, default) == IF entry.present THEN entry.v ELSE default

Min(a, b) == IF a <= b THEN a ELSE b
Max(a, b) == IF a >= b THEN a ELSE b

RECURSIVE SumSeq(_)
SumSeq(s) == IF s = <<>> THEN 0 ELSE Head(s) + SumSeq(Tail(s))

RECURSIVE FilterSeq(_, _)
\* [x for x in s if keep[x]] with keep given as a set of indices
FilterSeq(s, idx) ==
    IF s = <<>> THEN <<>>
    ELSE LET n == Len(s)
             front == FilterSeq(SubSeq(s, 1, n - 1), idx)
         IN IF n \in idx THEN Append(front, s[n]) ELSE front

\* Python str operations, character by character
\* the cased letters of the texts handled here, as a map from the character
ToLower ==
    [ A |-> "a", B |-> "b", C |-> "c", D |-> "d", E |-> "e", F |-> "f", G |-> "g",
      H |-> "h", I |-> "i", J |-> "j", K |-> "k", L |-> "l", M |-> "m", N |-> "n",
      O |-> "o", P |-> "p", Q |-> "q", R |-> "r", S |-> "s", T |-> "t", U |-> "u",
      V |-> "v", W |-> "w", X |-> "x", Y |-> "y", Z |-> "z" ]

ToUpper ==
    [ a |-> "A", b |-> "B", c |-> "C", d |-> "D", e |-> "E", f |-> "F", g |-> "G",
      h |-> "H", i |-> "I", j |-> "J", k |-> "K", l |-> "L", m |-> "M", n |-> "N",
      o |-> "O", p |-> "P", q |-> "Q", r |-> "R", s |-> "S", t |-> "T", u |-> "U",
      v |-> "V", w |-> "W", x |-> "X", y |-> "Y", z |-> "Z" ]

LowerChar(c) == IF c \in DOMAIN ToLower THEN ToLower[c] ELSE c

UpperChar(c) == IF c \in DOMAIN ToUpper THEN ToUpper[c] ELSE c

CharAt(s, i) == SubSeq(s, i, i)
Rest(s) == SubSeq(s, 2, Len(s))

RECURSIVE Lower(_)
\* str.lower(), the two halves of the string converted one after the other
Lower(s) ==
    IF Len(s) = 0 THEN ""
    ELSE IF Len(s) = 1 THEN LowerChar(s)
    ELSE Lower(SubSeq(s, 1, Len(s) \div 2)) \o Lower(SubSeq(s, (Len(s) \div 2) + 1, Len(s)))

RECURSIVE Upper(_)
\* str.upper()
Upper(s) ==
    IF Len(s) = 0 THEN ""
    ELSE IF Len(s) = 1 THEN UpperChar(s)
    ELSE Upper(SubSeq(s, 1, Len(s) \div 2)) \o Upper(SubSeq(s, (Len(s) \div 2) + 1, Len(s)))

RECURSIVE LStrip(_)
LStrip(s) == IF Len(s) > 0 /\ CharAt(s, 1) = " " THEN LStrip(Rest(s)) ELSE s

RECURSIVE RStrip(_)
RStrip(s) ==
    IF Len(s) > 0 /\ CharAt(s, Len(s)) = " "
    THEN RStrip(SubSeq(s, 1, Len(s) - 1)) ELSE s

Strip(s) == LStrip(RStrip(s))

\* the positions where a maximal run of non-blank characters of s starts
RunStarts(s) ==
    {i \in 1..Len(s) : CharAt(s, i) # " " /\ (i = 1 \/ CharAt(s, i - 1) = " ")}

\* the position where the run that starts at i ends
RunEnd(s, i) ==
    CHOOSE e \in i..Len(s) :
        /\ \A j \in i..e : CharAt(s, j) # " "
        /\ (e = Len(s) \/ CharAt(s, e + 1) = " ")

\* the k-th smallest member of the set of positions
KthOf(positions, k) ==
    CHOOSE i \in positions : Cardinality({j \in positions : j < i}) = k - 1

\* str.split() of the string value s: the maximal runs of non-blank
\* characters, in order
SplitFrom(s, starts) ==
    [k \in 1..Cardinality(starts) |->
        SubSeq(s, KthOf(starts, k), RunEnd(s, KthOf(starts, k)))]

Split(s) ==
    CHOOSE words \in { SplitFrom(v, RunStarts(v)) : v \in {s} } : TRUE

\* needle in hay (substring test), needle non-empty
Contains(hay, needle) ==
    \E i \in 1..(Len(hay) - Len(needle) + 1) :
        SubSeq(hay, i, i + Len(needle) - 1) = needle

\* x in list
InSeq(x, s) == \E i \in 1..Len(s) : s[i] = x

(***************************************************************************)
(* GrammarErrorClassifier  (grammar_classifier.py)                         *)
(***************************************************************************)
ERROR_TAXONOMY ==
    [TIER_1 |-> {"wrong_tense_context", "subject_verb_disagreement",
                 "missing_auxiliary", "word_order_chaos", "critical_omission"},
     TIER_2 |-> {"article_error", "preposition_error", "plural_form_error",
                 "wrong_verb_form", "punctuation_error"},
     TIER_3 |-> {"article_omission_casual", "uncountable_plural",
                 "redundant_preposition", "colloquial_contraction",
                 "minor_tense_slip"}]

TierNames == {"TIER_1", "TIER_2", "TIER_3"}

\* the penalty table of classify_errors
TierPenalty(tier) ==
    CASE tier = "TIER_1" -> 10
      [] tier = "TIER_2" -> 5
      [] tier = "TIER_3" -> 2

\* _determine_tier: a valid severity tag wins, else the error_type, else TIER_2
_determine_tier(error) ==
    LET severity == Upper(error.severity)
        error_type == Lower(error.error_type)
    IN IF severity \in TierNames THEN severity
       ELSE IF error_type \in ERROR_TAXONOMY.TIER_1 THEN "TIER_1"
       ELSE IF error_type \in ERROR_TAXONOMY.TIER_2 THEN "TIER_2"
       ELSE IF error_type \in ERROR_TAXONOMY.TIER_3 THEN "TIER_3"
       ELSE "TIER_2"

StructBonus(struct) ==
    (IF Lower(struct.type) \in {"complex", "compound-complex"} THEN 3 ELSE 0)
    + (IF "passive_voice" \in struct.features THEN 2 ELSE 0)
    + (IF "conditional" \in struct.features THEN 2 ELSE 0)

\* _calculate_complexity_bonus: capped at 15
_calculate_complexity_bonus(structures) ==
    Min(SumSeq([i \in 1..Len(structures) |-> StructBonus(structures[i])]), 15)

TotalPenalty(errors) ==
    SumSeq([i \in 1..Len(errors) |-> TierPenalty(_determine_tier(errors[i]))])

GrammarScore_NoFloor(errors, structures) ==
    Min(100, 100 - TotalPenalty(errors) + _calculate_complexity_bonus(structures))

\* the score of classify_errors: max(0, 100 - penalty + bonus), then min(100, .)
GrammarScore(errors, structures) ==
    Min(100, Max(0, 100 - TotalPenalty(errors)
                        + _calculate_complexity_bonus(structures)))

\* classify_errors(gemini_analysis).  The returned dict has the keys
\* overall_grammar, errors_by_tier, total_errors, complexity_bonus, breakdown:
\* it has no "score" key.
classify_errors(gemini_analysis) ==
    [overall_grammar  |-> GrammarScore(gemini_analysis.grammatical_errors,
                                       gemini_analysis.sentence_structures),
     total_errors     |-> Len(gemini_analysis.grammatical_errors),
     complexity_bonus |-> _calculate_complexity_bonus(gemini_analysis.sentence_structures),
     score            |-> Absent]

(***************************************************************************)
(* Floating point - the binary64 values and operations of Python's float   *)
(*                                                                         *)
(* A natural number of any size is the sequence of its digits in base      *)
(* Limb, the least significant first and the last one not 0; <<>> is 0.    *)
(* A float is the record [neg, mant, exp] of the value (-1)^neg * mant *   *)
(* 2^exp with mant odd and below 2^53, or [FALSE, 0, 0] for zero.  Every   *)
(* operation computes the exact result and rounds it once to 53 bits, a    *)
(* halfway value to the even neighbour, as IEEE 754 prescribes; the values *)
(* of the program are far from the overflow and the underflow range.       *)
(***************************************************************************)
Limb == 2^15

RECURSIVE Trim(_)
\* a digit sequence without its leading zeros
Trim(a) ==
    IF a = <<>> \/ a[Len(a)] # 0 THEN a ELSE Trim(SubSeq(a, 1, Len(a) - 1))

RECURSIVE NatOf(_)
\* the digits of the integer n >= 0
NatOf(n) == IF n = 0 THEN <<>> ELSE <<n % Limb>> \o NatOf(n \div Limb)

RECURSIVE IntOf(_)
\* the integer of a digit sequence
IntOf(a) == IF a = <<>> THEN 0 ELSE a[1] + Limb * IntOf(Tail(a))

\* digit i of a, 0 beyond its length
LimbAt(a, i) == IF i <= Len(a) THEN a[i] ELSE 0

RECURSIVE AddCarry(_, _, _, _)
\* the digits from i on of a + b, carry coming from the digits before
AddCarry(a, b, i, carry) ==
    IF i > Len(a) /\ i > Len(b)
    THEN IF carry = 0 THEN <<>> ELSE <<carry>>
    ELSE <<(LimbAt(a, i) + LimbAt(b, i) + carry) % Limb>>
            \o AddCarry(a, b, i + 1, (LimbAt(a, i) + LimbAt(b, i) + carry) \div Limb)

NatAdd(a, b) == AddCarry(a, b, 1, 0)

RECURSIVE SubBorrow(_, _, _, _)
\* the digits from i on of a - b for a >= b
SubBorrow(a, b, i, borrow) ==
    IF i > Len(a) THEN <<>>
    ELSE <<(a[i] - LimbAt(b, i) - borrow) % Limb>>
            \o SubBorrow(a, b, i + 1, IF a[i] - LimbAt(b, i) - borrow < 0 THEN 1 ELSE 0)

NatSub(a, b) == Trim(SubBorrow(a, b, 1, 0))

NatLess(a, b) ==
    IF Len(a) # Len(b) THEN Len(a) < Len(b)
    ELSE \E i \in 1..Len(a) :
            a[i] < b[i] /\ \A j \in (i + 1)..Len(a) : a[j] = b[j]

RECURSIVE MulCarry(_, _, _, _)
\* the digits from i on of a * k for a digit k
MulCarry(a, k, i, carry) ==
    IF i > Len(a) THEN IF carry = 0 THEN <<>> ELSE <<carry>>
    ELSE <<(a[i] * k + carry) % Limb>>
            \o MulCarry(a, k, i + 1, (a[i] * k + carry) \div Limb)

NatMulSmall(a, k) == Trim(MulCarry(a, k, 1, 0))

\* a * Limb^n
ShiftLimbs(a, n) == IF a = <<>> THEN <<>> ELSE [i \in 1..n |-> 0] \o a

RECURSIVE MulFrom(_, _, _)
\* a * (b without its first j - 1 digits)
MulFrom(a, b, j) ==
    IF j > Len(b) THEN <<>>
    ELSE NatAdd(NatMulSmall(a, b[j]), ShiftLimbs(MulFrom(a, b, j + 1), 1))

NatMul(a, b) == MulFrom(a, b, 1)

RECURSIVE DivRem(_, _, _)
\* quotient and remainder of (a without its first i - 1 digits) by the
\* digit k > 0
DivRem(a, k, i) ==
    IF i > Len(a) THEN [q |-> <<>>, r |-> 0]
    ELSE CHOOSE res \in
            { [q |-> Trim(<<(hi.r * Limb + a[i]) \div k>> \o hi.q),
               r |-> (hi.r * Limb + a[i]) % k] : hi \in {DivRem(a, k, i + 1)} } : TRUE

RECURSIVE SmallBitLen(_)
SmallBitLen(n) == IF n = 0 THEN 0 ELSE 1 + SmallBitLen(n \div 2)

\* the number of binary digits of a
BitLen(a) ==
    IF a = <<>> THEN 0 ELSE 15 * (Len(a) - 1) + SmallBitLen(a[Len(a)])

\* a * 2^s
ShiftLeft(a, s) == ShiftLimbs(NatMulSmall(a, 2^(s % 15)), s \div 15)

\* a \div 2^s
ShiftRight(a, s) ==
    DivRem(SubSeq(a, (s \div 15) + 1, Len(a)), 2^(s % 15), 1).q

\* a % 2^s
LowBits(a, s) == NatSub(a, ShiftLeft(ShiftRight(a, s), s))

RECURSIVE SmallTrailingZeros(_)
SmallTrailingZeros(n) == IF n % 2 = 1 THEN 0 ELSE 1 + SmallTrailingZeros(n \div 2)

\* the number of zeros at the end of the binary digits of a > 0
TrailingZeros(a) ==
    CHOOSE z \in { 15 * (i - 1) + SmallTrailingZeros(a[i])
                   : i \in {CHOOSE j \in 1..Len(a) :
                               a[j] # 0 /\ \A l \in 1..(j - 1) : a[l] = 0} } : TRUE

FloatZero == [neg |-> FALSE, mant |-> <<>>, exp |-> 0]

\* the float of the value (-1)^neg * mant * 2^exp for mant below 2^54
Normal(neg, mant, exp) ==
    IF mant = <<>> THEN FloatZero
    ELSE [neg |-> neg,
          mant |-> ShiftRight(mant, TrailingZeros(mant)),
          exp |-> exp + TrailingZeros(mant)]

\* mant \div 2^d rounded to nearest, a halfway value to the even neighbour;
\* above says that the value lies above mant
Nearest(mant, d, above) ==
    IF \/ NatLess(ShiftLeft(<<1>>, d - 1), LowBits(mant, d))
       \/ /\ LowBits(mant, d) = ShiftLeft(<<1>>, d - 1)
          /\ (above \/ LimbAt(ShiftRight(mant, d), 1) % 2 = 1)
    THEN NatAdd(ShiftRight(mant, d), <<1>>)
    ELSE ShiftRight(mant, d)

\* the float nearest to (-1)^neg * mant * 2^exp, or to a value just above
\* it in magnitude, which takes mant of more than 53 bits
Round53(neg, mant, exp, above) ==
    IF BitLen(mant) <= 53 THEN Normal(neg, mant, exp)
    ELSE Normal(neg, Nearest(mant, BitLen(mant) - 53, above),
                exp + BitLen(mant) - 53)

\* float(n) for an int of at most 31 bits
FloatOfInt(n) == Normal(n < 0, NatOf(IF n < 0 THEN -n ELSE n), 0)

\* the digits of x.mant * 2^(x.exp - e) for e <= x.exp
Aligned(x, e) == ShiftLeft(x.mant, x.exp - e)

\* the float nearest to the sum of (-1)^xneg * mx * 2^e and (-1)^yneg * my * 2^e
SignedSum(xneg, mx, yneg, my, e) ==
    IF xneg = yneg THEN Round53(xneg, NatAdd(mx, my), e, FALSE)
    ELSE IF NatLess(mx, my) THEN Round53(yneg, NatSub(my, mx), e, FALSE)
    ELSE Round53(xneg, NatSub(mx, my), e, FALSE)

\* x + y
FloatAdd(x, y) ==
    SignedSum(x.neg, Aligned(x, Min(x.exp, y.exp)),
              y.neg, Aligned(y, Min(x.exp, y.exp)), Min(x.exp, y.exp))

\* -x
FloatNeg(x) == IF x.mant = <<>> THEN x ELSE [x EXCEPT !.neg = ~x.neg]

\* x - y
FloatSub(x, y) == FloatAdd(x, FloatNeg(y))

\* x * y
FloatMul(x, y) ==
    Round53(x.neg # y.neg, NatMul(x.mant, y.mant), x.exp + y.exp, FALSE)

\* the float nearest to the quotient dr of x.mant * Limb^5 by a digit
RoundQuotient(x, dr) == Round53(x.neg, dr.q, x.exp - 75, dr.r # 0)

\* x / k for an int k of 1..Limb-1
FloatDiv(x, k) ==
    IF x.mant = <<>> THEN FloatZero
    ELSE RoundQuotient(x, DivRem(ShiftLimbs(x.mant, 5), k, 1))

\* x < y
FloatLess(x, y) == FloatSub(x, y).neg

\* round(x, 1) in tenths: the integer nearest to 10 * x, a halfway value
\* going to the even one
RoundTenths(x) ==
    (IF x.neg THEN -1 ELSE 1)
    * IntOf(IF x.exp >= 0 THEN ShiftLeft(NatMulSmall(x.mant, 10), x.exp)
            ELSE Nearest(NatMulSmall(x.mant, 10), -x.exp, FALSE))

\* x <= y
FloatLeq(x, y) == ~FloatLess(y, x)

(***************************************************************************)
(* CEFRClassifier.classify  (cefr_classifier.py:44-83)                     *)
(*                                                                         *)
(* classify(text) hands its argument to nltk's word_tokenize, which        *)
(* accepts a str only: any other object makes the tokenizer's regular      *)
(* expression raise TypeError before a level is computed.  The argument is *)
(* modelled with its Python type.                                          *)
(***************************************************************************)
classify(arg) ==
    IF arg.type # "str"
    THEN [raised |-> TRUE, error |-> "TypeError"]
    ELSE [raised |-> FALSE, error |-> "none"]

\* settings.cefr_*_max_score  (config.py:94-98)
cefr_a1_max_score == 30
cefr_a2_max_score == 45
cefr_b1_max_score == 60
cefr_b2_max_score == 75
cefr_c1_max_score == 90

\* str.isalpha(): non-empty and letters only
isalpha(word) ==
    /\ Len(word) > 0
    /\ \A i \in 1..Len(word) :
          CharAt(word, i) \in (DOMAIN ToLower) \cup (DOMAIN ToUpper)

\* the word ends a sentence: it carries a final full stop
EndsSentence(word) == Len(word) > 1 /\ CharAt(word, Len(word)) = "."

RECURSIVE TokenizeWords(_)
\* the tokens of whitespace-separated words, a sentence-final full stop
\* becoming a token of its own
TokenizeWords(words) ==
    IF words = <<>> THEN <<>>
    ELSE IF EndsSentence(Head(words))
         THEN <<SubSeq(Head(words), 1, Len(Head(words)) - 1), ".">>
                  \o TokenizeWords(Tail(words))
         ELSE <<Head(words)>> \o TokenizeWords(Tail(words))

\* nltk word_tokenize on plain text whose only punctuation is the full stop
\* closing a sentence
word_tokenize(text) == TokenizeWords(Split(text))

\* len(sent_tokenize(text)): the closed sentences and an unclosed last one
SentenceCount(words) ==
    Cardinality({i \in 1..Len(words) : EndsSentence(words[i])})
    + (IF words # <<>> /\ ~EndsSentence(words[Len(words)]) THEN 1 ELSE 0)

RECURSIVE AlphaLower(_)
\* line 48: [word.lower() for word in word_tokenize(text) if word.isalpha()]
AlphaLower(toks) ==
    IF toks = <<>> THEN <<>>
    ELSE IF isalpha(Head(toks))
         THEN <<Lower(Head(toks))>> \o AlphaLower(Tail(toks))
         ELSE AlphaLower(Tail(toks))

\* lines 30-34 and 55: len(set(tokens)) / len(tokens)
_calculate_lexical_diversity(tokens) ==
    IF tokens = <<>> THEN FloatZero
    ELSE FloatDiv(FloatOfInt(Cardinality({tokens[i] : i \in 1..Len(tokens)})),
                  Len(tokens))

\* lines 36-42 and 56: len(word_tokenize(text)) / len(sent_tokenize(text))
_calculate_sentence_complexity(all_tokens, sentences) ==
    IF sentences = 0 THEN FloatZero
    ELSE FloatDiv(FloatOfInt(all_tokens), sentences)

\* line 60: score = (lexical_diversity * 200) + (sentence_complexity * 2),
\* each operation rounded as the float arithmetic rounds it
FormulaScore(tokens, all_tokens, sentences) ==
    FloatAdd(FloatMul(_calculate_lexical_diversity(tokens), FloatOfInt(200)),
             FloatMul(_calculate_sentence_complexity(all_tokens, sentences),
                      FloatOfInt(2)))

\* lines 62-73
LevelOf(score) ==
    IF FloatLeq(score, FloatOfInt(cefr_a1_max_score)) THEN "A1"
    ELSE IF FloatLeq(score, FloatOfInt(cefr_a2_max_score)) THEN "A2"
    ELSE IF FloatLeq(score, FloatOfInt(cefr_b1_max_score)) THEN "B1"
    ELSE IF FloatLeq(score, FloatOfInt(cefr_b2_max_score)) THEN "B2"
    ELSE IF FloatLeq(score, FloatOfInt(cefr_c1_max_score)) THEN "C1"
    ELSE "C2"

\* line 78: min(score, 100), stored in the float field of CEFRAssessment
CapScore(score) ==
    IF FloatLess(FloatOfInt(100), score) THEN FloatOfInt(100) ELSE score

\* line 51
TooShort_Never(num_words) == FALSE
TooShort(num_words) == num_words < 5

\* lines 51-83 for the alphabetic tokens, the token and the sentence counts
Assess(tokens, all_tokens, sentences) ==
    IF TooShort(Len(tokens))
    THEN [level |-> "A1", score |-> CapScore(FloatOfInt(10))]
    ELSE [level |-> LevelOf(FormulaScore(tokens, all_tokens, sentences)),
          score |-> CapScore(FormulaScore(tokens, all_tokens, sentences))]

\* classify(text) for a str
classify_text(text) ==
    Assess(AlphaLower(word_tokenize(text)),
           Len(word_tokenize(text)),
           SentenceCount(Split(text)))

(***************************************************************************)
(* Part A - inputs of one analyze() call                                   *)
(***************************************************************************)
Dims == {"grammar", "vocabulary", "fluency", "pronunciation"}
Failed == {"failed", "timeout"}
Settled == {"ok", "failed", "timeout"}

\* errors an LLM grammar answer may carry
ErrorRecords ==
    { [original |-> "I go", corrected |-> "I went",
       error_type |-> "wrong_tense_context", severity |-> "TIER_1"],
      [original |-> "a apple", corrected |-> "an apple",
       error_type |-> "Article_Error", severity |-> ""],
      [original |-> "I Went", corrected |-> "i went ",
       error_type |-> "minor_tense_slip", severity |-> "tier_3"] }

SeqsUpTo(S, n) == UNION { [1..k -> S] : k \in 0..n }

StructLists ==
    { <<>>,
      << [type |-> "complex", features |-> {"passive_voice", "conditional"}] >> }

\* parsed answers of the four analyzer prompts (robust_json_parser output)
GrammarAnswers ==
    { [grammar_score |-> 40, grammatical_errors |-> es, sentence_structures |-> ss,
       score |-> Absent]
      : es \in SeqsUpTo(ErrorRecords, MaxErrors), ss \in StructLists }

VocabularyAnswers == { [vocabulary_score |-> 70, score |-> Absent] }

FluencyAnswers ==
    { [fluency_score |-> 80, score |-> Absent],
      [fluency_score |-> 30, score |-> Some(120)] }

PronunciationAnswers ==
    { [pronunciation_score |-> 90, score |-> Absent],
      [pronunciation_score |-> 20, score |-> Some(70)] }

Answers(d) ==
    CASE d = "grammar"       -> GrammarAnswers
      [] d = "vocabulary"    -> VocabularyAnswers
      [] d = "fluency"       -> FluencyAnswers
      [] d = "pronunciation" -> PronunciationAnswers

\* overall_vocabulary values VocabularyAnalyzer.analyze_vocabulary may return
\* for the request text (0 for a text without tokens)
VocabScores == {0, 62}

\* outcomes of one validity check of _verify_error_corrections
CheckOutcomes == {"valid", "invalid", "noanswer", "raise", "timeout"}

\* errors[:10]
VerifyLimit == 10

NoMetrics ==
    [set |-> FALSE, grammar_score |-> 0, vocabulary_score |-> 0,
     fluency_score |-> 0, pronunciation_score |-> 0, overall100 |-> 0]

NoGrammar == [overall_grammar |-> 0, total_errors |-> 0, complexity_bonus |-> 0,
              score |-> Absent]
NoVocab == [overall_vocabulary |-> 0, score |-> Absent]

(***************************************************************************)
(* Part A - the steps of analyze()  (analysis_service.py:408-527)          *)
(***************************************************************************)
\* lines 447-461: an exception in gather's result is replaced by a default dict
DefaultData(d) ==
    CASE d = "grammar" ->
           [grammar_score |-> 50, grammatical_errors |-> <<>>,
            sentence_structures |-> <<>>, score |-> Absent]
      [] d = "vocabulary" -> [vocabulary_score |-> 50, score |-> Absent]
      [] d = "fluency" -> [fluency_score |-> 50, score |-> Absent]
      [] d = "pronunciation" -> [pronunciation_score |-> 50, score |-> Absent]

\* the dict analyze() holds for dimension d after lines 447-461
HandledData(d) == IF task[d] \in Failed THEN DefaultData(d) ELSE raw[d]

\* asyncio.gather(*tasks, return_exceptions=True) returns once every task has
\* settled
GatherReady_FirstCompleted == \E d \in Dims : task[d] \in Settled
GatherReady == \A d \in Dims : task[d] \in Settled

\* with return_exceptions=True gather hands exceptions back as values and does
\* not raise: the except branch of lines 463-466 is not taken
GatherRaises == FALSE

\* lines 364-367: min(max(data.get("score", 50), 0), 100)
ScoreOf(data) == Min(Max(Get(data.score, 50), 0), 100)

\* lines 370-375, times 100
Overall100(g, v, f, p) == g * 25 + v * 20 + f * 25 + p * 30

\* the AnalysisMetrics of _synthesize_scores (lines 364-395)
SynthMetrics(gd, vd, fd, pd) ==
    [set |-> TRUE,
     grammar_score |-> ScoreOf(gd),
     vocabulary_score |-> ScoreOf(vd),
     fluency_score |-> ScoreOf(fd),
     pronunciation_score |-> ScoreOf(pd),
     overall100 |-> Overall100(ScoreOf(gd), ScoreOf(vd), ScoreOf(fd), ScoreOf(pd))]

\* _create_fallback_response (lines 657-678)
FallbackMetrics ==
    [set |-> TRUE, grammar_score |-> 50, vocabulary_score |-> 50,
     fluency_score |-> 50, pronunciation_score |-> 50, overall100 |-> 5000]

\* lines 310-315: entries the verify loop skips without a check
SkipsCheck(error) ==
    \/ error.original = ""
    \/ error.corrected = ""
    \/ Strip(Lower(error.original)) = Strip(Lower(error.corrected))

\* lines 328-343: is the entry appended to verified_errors after its check
\*   "valid"    the check answered is_valid true
\*   "invalid"  the check answered is_valid false
\*   "noanswer" the parsed answer carries no is_valid (result.get gives None)
\*   "raise" / "timeout"  generate_content_async or wait_for raised
VerifyKeeps(check) == check \in {"valid", "raise", "timeout"}

\* line 306: the entries the loop visits
VerifyCount_All == Len(all_errors)
VerifyCount == Min(Len(all_errors), VerifyLimit)

InitA ==
    /\ configured \in BOOLEAN
    /\ pc = "start"
    /\ task = [d \in Dims |-> "none"]
    /\ raw = [d \in Dims |-> DefaultData(d)]
    /\ grammar_data = NoGrammar
    /\ vocab_data = NoVocab
    /\ all_errors = <<>>
    /\ vi = 0
    /\ verdicts = <<>>
    /\ verified_errors = <<>>
    /\ synthSaw = [d \in Dims |-> "none"]
    /\ metrics = NoMetrics
    /\ outcome = "none"

\* lines 420-438: the configuration check, the baseline CEFR estimate of the
\* request text, and the creation of the four analyzer coroutines
Dispatch ==
    /\ pc = "start"
    /\ IF ~configured
       THEN /\ pc' = "end"
            /\ outcome' = "RuntimeError"
            /\ UNCHANGED task
       ELSE /\ ~classify([type |-> "str"]).raised
            /\ pc' = "await"
            /\ task' = [d \in Dims |-> "pending"]
            /\ UNCHANGED outcome
    /\ UNCHANGED <<configured, raw, grammar_data, vocab_data, all_errors, vi,
                   verdicts, verified_errors, synthSaw, metrics>>
    /\ UNCHANGED <<varsB, varsC, varsD, varsE>>

\* lines 533-563: one analyzer coroutine settles: its LLM call answered and
\* was parsed, or it raised, or wait_for timed out after 15 s
TaskSettle(d) ==
    /\ pc = "await"
    /\ task[d] = "pending"
    /\ \/ \E a \in Answers(d) :
            /\ task' = [task EXCEPT ![d] = "ok"]
            /\ raw' = [raw EXCEPT ![d] = a]
       \/ \E f \in Failed :
            /\ task' = [task EXCEPT ![d] = f]
            /\ UNCHANGED raw
    /\ UNCHANGED <<configured, pc, grammar_data, vocab_data, all_errors, vi,
                   verdicts, verified_errors, synthSaw, metrics, outcome>>
    /\ UNCHANGED <<varsB, varsC, varsD, varsE>>

\* lines 440-481: gather returns, exceptions are replaced by defaults, the
\* grammar classifier and the vocabulary analyzer run, and the verification
\* loop is entered
Join ==
    /\ pc = "await"
    /\ GatherReady
    /\ IF GatherRaises
       THEN /\ pc' = "end"
            /\ outcome' = "fallback"
            /\ metrics' = FallbackMetrics
            /\ UNCHANGED <<grammar_data, vocab_data, all_errors>>
       ELSE /\ grammar_data' = classify_errors(HandledData("grammar"))
            /\ \E v \in VocabScores :
                 vocab_data' = [overall_vocabulary |-> v, score |-> Absent]
            /\ all_errors' = HandledData("grammar").grammatical_errors
            /\ pc' = "verify"
            /\ UNCHANGED <<outcome, metrics>>
    /\ vi' = 0
    /\ verdicts' = <<>>
    /\ verified_errors' = <<>>
    /\ UNCHANGED <<configured, task, raw, synthSaw>>
    /\ UNCHANGED <<varsB, varsC, varsD, varsE>>

\* lines 306-343: one iteration of the loop of _verify_error_corrections
VerifyStep ==
    /\ pc = "verify"
    /\ vi < VerifyCount
    /\ LET error == all_errors[vi + 1] IN
         IF SkipsCheck(error)
         THEN /\ verdicts' = Append(verdicts, "skipped")
              /\ UNCHANGED verified_errors
         ELSE \E check \in CheckOutcomes :
                /\ verdicts' = Append(verdicts, check)
                /\ verified_errors' =
                     IF VerifyKeeps(check) THEN Append(verified_errors, error)
                     ELSE verified_errors
    /\ vi' = vi + 1
    /\ UNCHANGED <<configured, pc, task, raw, grammar_data, vocab_data,
                   all_errors, synthSaw, metrics, outcome>>
    /\ UNCHANGED <<varsB, varsC, varsD, varsE>>

\* lines 485-527: _synthesize_scores builds the metrics and derives the CEFR
\* level with cefr_classifier.classify(metrics); the response is built when
\* that returns
Synthesize ==
    /\ pc = "verify"
    /\ vi = VerifyCount
    /\ synthSaw' = task
    /\ metrics' = SynthMetrics(grammar_data, vocab_data,
                               HandledData("fluency"), HandledData("pronunciation"))
    /\ outcome' = IF classify([type |-> "AnalysisMetrics"]).raised
                  THEN classify([type |-> "AnalysisMetrics"]).error
                  ELSE "response"
    /\ pc' = "end"
    /\ UNCHANGED <<configured, task, raw, grammar_data, vocab_data, all_errors,
                   vi, verdicts, verified_errors>>
    /\ UNCHANGED <<varsB, varsC, varsD, varsE>>

(***************************************************************************)
(* Phoneme symbols.  The source writes IPA; the model writes each symbol   *)
(* in ASCII (X-SAMPA where it is plain, a name otherwise):                 *)
(*   @ = U+0259,  A = U+0251,  A: = U+0251+U+02D0                           *)
(*   D = U+00F0,  E = U+025B,  I = U+026A                                   *)
(*   O = U+0254,  O: = U+0254+U+02D0,  Q = U+0252                           *)
(*   S = U+0283,  T = U+03B8,  U = U+028A                                   *)
(*   V = U+028C,  Z = U+0292,  ae = U+00E6                                  *)
(*   dZ = U+0064+U+0292,  eI = U+0065+U+026A,  flap = U+027E                *)
(*   i: = U+0069+U+02D0,  k_h = U+006B+U+02B0,  l_dark = U+026B             *)
(*   oU = U+006F+U+028A,  p_h = U+0070+U+02B0,  r_retroflex = U+027B        *)
(*   r_turned = U+0279,  s_retroflex = U+0282,  t_h = U+0074+U+02B0         *)
(*   t_v = U+0074+U+032C,  u: = U+0075+U+02D0                               *)
(***************************************************************************)
\* PHONEME_EQUIVALENTS (hinglish_stt_service.py:262-306): the pairs mapped to True
PHONEME_EQUIVALENTS ==
    {
      <<"I", "i">>, <<"i", "I">>, <<"i:", "I">>, <<"I", "i:">>,
      <<"u:", "U">>, <<"U", "u:">>, <<"A:", "A">>, <<"A", "A:">>,
      <<"ae", "E">>, <<"E", "ae">>, <<"@", "V">>, <<"V", "@">>,
      <<"O:", "Q">>, <<"Q", "O:">>, <<"O", "Q">>, <<"Q", "O">>,
      <<"eI", "e">>, <<"e", "eI">>, <<"oU", "o">>, <<"o", "oU">>,
      <<"t", "t_v">>, <<"t_v", "t">>, <<"t", "flap">>, <<"flap", "t">>,
      <<"d", "flap">>, <<"flap", "d">>, <<"r_turned", "r">>, <<"r", "r_turned">>,
      <<"r_turned", "r_retroflex">>, <<"r_retroflex", "r_turned">>, <<"p", "p_h">>, <<"p_h", "p">>,
      <<"k", "k_h">>, <<"k_h", "k">>, <<"t", "t_h">>, <<"t_h", "t">>,
      <<"l", "l_dark">>, <<"l_dark", "l">> }

\* PATTERN_MAP (hinglish_stt_service.py:333-360): (expected, heard) -> (pattern
\* name, hint); named = FALSE is the source's None, an acceptable variant
PATTERN_MAP ==
    {
      [key |-> <<"S", "s">>, named |-> TRUE, pattern_name |-> "sh_s_confusion",
       hint |-> "Woh 'sh' sound - jaise library mein 'shhh' karte hain - thoda aur strong chahiye."],
      [key |-> <<"S", "s_retroflex">>, named |-> TRUE, pattern_name |-> "sh_s_confusion",
       hint |-> "Woh 'sh' sound - jaise library mein 'shhh' karte hain - thoda aur strong chahiye."],
      [key |-> <<"w", "v">>, named |-> TRUE, pattern_name |-> "v_w_confusion",
       hint |-> "Almost! 'W' sound mein lips round karo, 'v' nahi - like you're about to whistle."],
      [key |-> <<"v", "w">>, named |-> TRUE, pattern_name |-> "v_w_reverse",
       hint |-> "Yahan 'V' chahiye - upper teeth lower lip pe. 'W' nahi, 'V'."],
      [key |-> <<"T", "t">>, named |-> TRUE, pattern_name |-> "th_d_confusion",
       hint |-> "Yeh 'th' wala sound tricky hai - tongue ko teeth ke beech rakho. 'Think' bolo slowly?"],
      [key |-> <<"T", "d">>, named |-> TRUE, pattern_name |-> "th_d_confusion",
       hint |-> "Yeh 'th' wala sound tricky hai - tongue ko teeth ke beech rakho."],
      [key |-> <<"T", "f">>, named |-> TRUE, pattern_name |-> "th_f_confusion",
       hint |-> "Close! But 'th' mein tongue teeth ke beech - 'f' nahi. Try 'think' slowly."],
      [key |-> <<"D", "d">>, named |-> TRUE, pattern_name |-> "th_d_confusion",
       hint |-> "'The' mein tongue teeth ke beech - try slowly?"],
      [key |-> <<"D", "t">>, named |-> TRUE, pattern_name |-> "th_d_confusion",
       hint |-> "'The' mein tongue teeth ke beech - try slowly?"],
      [key |-> <<"D", "z">>, named |-> TRUE, pattern_name |-> "th_z_confusion",
       hint |-> "Almost! 'The' mein tongue teeth ke beech - 'z' nahi."],
      [key |-> <<"z", "s">>, named |-> TRUE, pattern_name |-> "z_s_confusion",
       hint |-> "'Z' sound mein vibration chahiye throat mein - like a buzzing bee!"],
      [key |-> <<"z", "dZ">>, named |-> TRUE, pattern_name |-> "z_j_confusion",
       hint |-> "'Z' aur 'J' alag hain - 'Z' mein buzzing, 'J' mein jaw move hoti hai."],
      [key |-> <<"f", "p">>, named |-> TRUE, pattern_name |-> "f_p_confusion",
       hint |-> "'F' mein upper teeth lower lip touch karte hain - hawa bahar aati hai. 'P' nahi."],
      [key |-> <<"Z", "dZ">>, named |-> FALSE, pattern_name |-> "", hint |-> ""],
      [key |-> <<"Z", "z">>, named |-> TRUE, pattern_name |-> "zh_z_confusion",
       hint |-> "Yeh 'zh' sound hai - jaise 'pleasure' mein. 'Z' se thoda softer."],
      [key |-> <<"Z", "S">>, named |-> TRUE, pattern_name |-> "zh_sh_confusion",
       hint |-> "'Vision' mein 'zh' hai, 'sh' nahi - throat mein vibration feel karo."],
      [key |-> <<"r_turned", "flap">>, named |-> FALSE, pattern_name |-> "", hint |-> ""],
      [key |-> <<"r_turned", "r_retroflex">>, named |-> FALSE, pattern_name |-> "", hint |-> ""] }

\* MISPRONUNCIATION_DICT (hinglish_stt_service.py:670-744), in source order
MISPRONUNCIATION_DICT ==
    <<
      [misspelling |-> "engless", correct_word |-> "English", pattern_name |-> "vowel_substitution",
       hint |-> "It's 'Ing-lish', not 'engless' - try emphasizing the 'I' at the start."],
      [misspelling |-> "inglish", correct_word |-> "English", pattern_name |-> "vowel_substitution",
       hint |-> "'English' mein pehle 'I' sound hai, like 'IN-glish'. Try again?"],
      [misspelling |-> "anglish", correct_word |-> "English", pattern_name |-> "vowel_substitution",
       hint |-> "Almost! It starts with 'In', not 'An'. 'IN-glish' - try?"],
      [misspelling |-> "yenglish", correct_word |-> "English", pattern_name |-> "y_insertion",
       hint |-> "'English' mein no 'Y' - seedha 'IN-glish' bolo."],
      [misspelling |-> "pepul", correct_word |-> "people", pattern_name |-> "vowel_substitution",
       hint |-> "'People' mein 'pee-pul' bolo - the 'ee' sound is important, not 'e'."],
      [misspelling |-> "pipul", correct_word |-> "people", pattern_name |-> "vowel_substitution",
       hint |-> "'People' is 'PEE-pul' - that first vowel needs to be longer."],
      [misspelling |-> "peepal", correct_word |-> "people", pattern_name |-> "vowel_substitution",
       hint |-> "'People' and 'peepal' sound similar but different! It's 'PEE-pul'."],
      [misspelling |-> "peepul", correct_word |-> "people", pattern_name |-> "vowel_substitution",
       hint |-> "'People' - close! Just make sure it's 'PEE-pul', not 'peepal' like the tree."],
      [misspelling |-> "vater", correct_word |-> "water", pattern_name |-> "v_w_confusion",
       hint |-> "Almost! 'Water' starts with 'W' - lips round karo, like you're about to whistle. 'WA-ter'."],
      [misspelling |-> "vhater", correct_word |-> "water", pattern_name |-> "v_w_confusion",
       hint |-> "The 'W' in 'water' needs rounded lips - try 'WA-ter' slowly?"],
      [misspelling |-> "vork", correct_word |-> "work", pattern_name |-> "v_w_confusion",
       hint |-> "'Work' mein 'W' hai - lips round karo. 'WORK', not 'vork'."],
      [misspelling |-> "vorld", correct_word |-> "world", pattern_name |-> "v_w_confusion",
       hint |-> "'World' starts with 'W' - lips gol karo aur bolo 'WORLD'."],
      [misspelling |-> "ven", correct_word |-> "when", pattern_name |-> "v_w_confusion",
       hint |-> "'When' mein 'W' - lips round! Not 'ven'."],
      [misspelling |-> "vhat", correct_word |-> "what", pattern_name |-> "v_w_confusion",
       hint |-> "'What' mein 'W' hai - lips round karo, 'v' nahi."],
      [misspelling |-> "vith", correct_word |-> "with", pattern_name |-> "v_w_confusion",
       hint |-> "'With' - 'W' se start karo, lips round. Not 'vith'."],
      [misspelling |-> "vill", correct_word |-> "will", pattern_name |-> "v_w_confusion",
       hint |-> "'Will' mein 'W' hai - round your lips! Not 'vill'."],
      [misspelling |-> "vay", correct_word |-> "way", pattern_name |-> "v_w_confusion",
       hint |-> "'Way' mein 'W' - lips gol! Not 'vay'."],
      [misspelling |-> "vine", correct_word |-> "wine", pattern_name |-> "v_w_confusion",
       hint |-> "'Wine' aur 'vine' alag hain! 'Wine' mein lips round karo."],
      [misspelling |-> "vest", correct_word |-> "west", pattern_name |-> "v_w_confusion",
       hint |-> "'West' aur 'vest' alag hain - 'West' mein lips round."],
      [misspelling |-> "tink", correct_word |-> "think", pattern_name |-> "th_d_confusion",
       hint |-> "'Think' mein tongue teeth ke beech rakho - 'TH-ink', not 'tink'."],
      [misspelling |-> "ting", correct_word |-> "thing", pattern_name |-> "th_d_confusion",
       hint |-> "'Thing' ka 'th' tricky hai - tongue teeth ke beech. Try 'TH-ing'?"],
      [misspelling |-> "tree", correct_word |-> "three", pattern_name |-> "th_d_confusion",
       hint |-> "'Three' and 'tree' are different! 'Three' mein tongue teeth ke beech - 'TH-ree'."],
      [misspelling |-> "tru", correct_word |-> "through", pattern_name |-> "th_d_confusion",
       hint |-> "'Through' starts with 'th' - tongue teeth ke beech. Not 'tru'."],
      [misspelling |-> "dey", correct_word |-> "they", pattern_name |-> "th_d_confusion",
       hint |-> "'They' ka 'th' - tongue teeth ke beech, soft breath. Not 'dey'."],
      [misspelling |-> "dat", correct_word |-> "that", pattern_name |-> "th_d_confusion",
       hint |-> "'That' mein 'th' sound - tongue teeth ke beech. Not 'dat'."],
      [misspelling |-> "dis", correct_word |-> "this", pattern_name |-> "th_d_confusion",
       hint |-> "'This' mein 'th' - tongue teeth ke beech. Not 'dis'."],
      [misspelling |-> "der", correct_word |-> "there", pattern_name |-> "th_d_confusion",
       hint |-> "'There' mein 'th' - tongue teeth ke beech, not 'd'."],
      [misspelling |-> "dem", correct_word |-> "them", pattern_name |-> "th_d_confusion",
       hint |-> "'Them' mein 'th' - tongue teeth ke beech."],
      [misspelling |-> "tankyou", correct_word |-> "thank you", pattern_name |-> "th_d_confusion",
       hint |-> "'Thank' mein 'TH' - tongue teeth ke beech. Almost everyone struggles with this one!"],
      [misspelling |-> "tanks", correct_word |-> "thanks", pattern_name |-> "th_d_confusion",
       hint |-> "'Thanks' mein 'TH' - not 'tanks'. Tongue teeth ke beech!"],
      [misspelling |-> "ischool", correct_word |-> "school", pattern_name |-> "initial_vowel_addition",
       hint |-> "'School' seedha 'sk' se start hota hai - no extra 'i' at the start."],
      [misspelling |-> "eschool", correct_word |-> "school", pattern_name |-> "initial_vowel_addition",
       hint |-> "'School' - no extra vowel needed at the start. Just 'SKOOL'."],
      [misspelling |-> "istation", correct_word |-> "station", pattern_name |-> "initial_vowel_addition",
       hint |-> "'Station' seedha 'st' se start karo - no 'i' at the beginning."],
      [misspelling |-> "ispecial", correct_word |-> "special", pattern_name |-> "initial_vowel_addition",
       hint |-> "'Special' seedha 'sp' se start - no 'i' needed."],
      [misspelling |-> "ispeak", correct_word |-> "speak", pattern_name |-> "initial_vowel_addition",
       hint |-> "'Speak' directly 'sp' se - no 'i' at the start."],
      [misspelling |-> "wonly", correct_word |-> "only", pattern_name |-> "w_insertion",
       hint |-> "'Only' mein no 'W' at the start - seedha 'OWN-lee' bolo."],
      [misspelling |-> "yonly", correct_word |-> "only", pattern_name |-> "y_insertion",
       hint |-> "'Only' mein no 'Y' - seedha 'OWN-lee'."],
      [misspelling |-> "yexam", correct_word |-> "exam", pattern_name |-> "y_insertion",
       hint |-> "'Exam' mein no 'Y' - seedha 'ig-ZAM'."],
      [misspelling |-> "pronounciation", correct_word |-> "pronunciation", pattern_name |-> "spelling_pronunciation",
       hint |-> "Classic one! It's 'pro-NUN-ciation', not 'pro-NOUN-ciation'. The 'noun' changes to 'nun'."],
      [misspelling |-> "cumfortable", correct_word |-> "comfortable", pattern_name |-> "vowel_substitution",
       hint |-> "'Comfortable' - it starts with 'COM', not 'CUM'. Try 'KUMF-ter-bul'."],
      [misspelling |-> "prablem", correct_word |-> "problem", pattern_name |-> "vowel_substitution",
       hint |-> "'Problem' mein 'o' sound hai, 'a' nahi - 'PROB-lem'."],
      [misspelling |-> "divelopment", correct_word |-> "development", pattern_name |-> "vowel_substitution",
       hint |-> "'Development' mein 'de' hai, 'di' nahi - 'di-VEL-up-ment'."],
      [misspelling |-> "aksed", correct_word |-> "asked", pattern_name |-> "consonant_metathesis",
       hint |-> "'Asked' mein 'sk' hai, 'ks' nahi - try 'ASKT' slowly."],
      [misspelling |-> "axed", correct_word |-> "asked", pattern_name |-> "consonant_metathesis",
       hint |-> "'Asked' mein 'sk' order important hai - 'ASKT', not 'AXED'."],
      [misspelling |-> "pitcher", correct_word |-> "picture", pattern_name |-> "consonant_confusion",
       hint |-> "'Picture' aur 'pitcher' alag hain! 'PIC-cher' - the 'k' sound matters."],
      [misspelling |-> "libary", correct_word |-> "library", pattern_name |-> "consonant_dropping",
       hint |-> "'Library' mein dono 'r' bolo - 'LY-brer-ee', not 'ly-berry'."],
      [misspelling |-> "libery", correct_word |-> "library", pattern_name |-> "consonant_dropping",
       hint |-> "'Library' - 'LY-brer-ee'. Dono 'r' important hain."],
      [misspelling |-> "expresso", correct_word |-> "espresso", pattern_name |-> "spelling_pronunciation",
       hint |-> "'Espresso' - no 'X'! It's 'es-PRESS-oh'."],
      [misspelling |-> "eckcetera", correct_word |-> "etcetera", pattern_name |-> "spelling_pronunciation",
       hint |-> "'Etcetera' - 'et-SET-era', not 'eck-cetera'."],
      [misspelling |-> "exetera", correct_word |-> "etcetera", pattern_name |-> "spelling_pronunciation",
       hint |-> "'Etcetera' - 'et-SET-era', not 'exe-tera'."],
      [misspelling |-> "fil", correct_word |-> "feel", pattern_name |-> "vowel_shortening",
       hint |-> "'Feel' has a long 'ee' - 'FEEL', not 'fil'. Stretch it out!"],
      [misspelling |-> "shit", correct_word |-> "sheet", pattern_name |-> "vowel_shortening",
       hint |-> "Careful! 'Sheet' has a long 'ee' - 'SHEET'. Short 'i' changes the meaning completely!"],
      [misspelling |-> "bich", correct_word |-> "beach", pattern_name |-> "vowel_shortening",
       hint |-> "'Beach' has a long 'ee' - 'BEECH'. The short version is a different word!"],
      [misspelling |-> "iss", correct_word |-> "is", pattern_name |-> "z_s_confusion",
       hint |-> "'Is' ends with a 'Z' sound, not 'S'. Try buzzing at the end - 'IZZ'."],
      [misspelling |-> "wass", correct_word |-> "was", pattern_name |-> "z_s_confusion",
       hint |-> "'Was' ends with a 'Z' buzz - 'WUZ', not 'WASS'."],
      [misspelling |-> "hass", correct_word |-> "has", pattern_name |-> "z_s_confusion",
       hint |-> "'Has' ends with 'Z' - 'HAZ', not 'HASS'."] >>

(***************************************************************************)
(* Part B - phoneme acceptability  (hinglish_stt_service.py:308-316)       *)
(***************************************************************************)
NoneStr == [present |-> FALSE, v |-> ""]
SomeStr(x) == [present |-> TRUE, v |-> x]

_is_phoneme_acceptable_FlapOneWay(expected, actually_said) ==
    IF ~actually_said.present THEN TRUE
    ELSE IF expected = actually_said.v THEN TRUE
    ELSE <<expected, actually_said.v>> \in PHONEME_EQUIVALENTS /\ expected # "flap"

_is_phoneme_acceptable(expected, actually_said) ==
    IF ~actually_said.present THEN TRUE
    ELSE IF expected = actually_said.v THEN TRUE
    ELSE <<expected, actually_said.v>> \in PHONEME_EQUIVALENTS

\* PATTERN_MAP lookups
InPatternMap(key) == \E e \in PATTERN_MAP : e.key = key
PatternInfo(key) == CHOOSE e \in PATTERN_MAP : e.key = key

(***************************************************************************)
(* Part B - construction of words_data in _soft_pronunciation_pass         *)
(* (hinglish_stt_service.py:858-887)                                       *)
(***************************************************************************)
\* lines 865-880: one PhonemeDetail from the recognizer's phoneme entry
MakePhonemeDetail(raw_p) ==
    LET nbest_phonemes == raw_p.NBestPhonemes
        actually_said == IF Len(nbest_phonemes) > 0
                         THEN SomeStr(nbest_phonemes[1]) ELSE NoneStr
        is_correct == _is_phoneme_acceptable(raw_p.Phoneme, actually_said)
    IN [phoneme |-> raw_p.Phoneme,
        accuracy_score |-> raw_p.AccuracyScore,
        actually_said |-> IF ~is_correct THEN actually_said ELSE NoneStr,
        is_correct |-> is_correct,
        nbest |-> nbest_phonemes]

\* lines 858-887: one WordDetail from the recognizer's word entry
MakeWordDetail(raw_w) ==
    [word |-> raw_w.Word,
     accuracy_score |-> raw_w.AccuracyScore,
     error_type |-> raw_w.ErrorType,
     phonemes |-> [i \in 1..Len(raw_w.Phonemes) |-> MakePhonemeDetail(raw_w.Phonemes[i])]]

(***************************************************************************)
(* Part B - the phoneme pass, _classify_pronunciation_errors               *)
(* (hinglish_stt_service.py:318-444)                                       *)
(***************************************************************************)
EmptyInsights ==
    [critical_errors |-> <<>>, minor_errors |-> <<>>, indian_english_patterns |-> <<>>]

\* line 365: word accuracy below which a mispronounced word is critical
CriticalThreshold == 60
\* line 416: phoneme accuracy below which a matching phoneme is still flagged
SoftThreshold == 82

\* [e["word"] for e in errors]
ErrorWords(errors) == {errors[i].word : i \in 1..Len(errors)}

\* lines 364-374: word-level detection from the recognizer's error_type
ScanWordLevel(ins, word) ==
    IF word.error_type = "Mispronunciation"
    THEN IF word.accuracy_score < CriticalThreshold
         THEN [ins EXCEPT !.critical_errors =
                  Append(@, [word |-> word.word, score |-> word.accuracy_score])]
         ELSE [ins EXCEPT !.minor_errors =
                  Append(@, [word |-> word.word, score |-> word.accuracy_score])]
    ELSE ins

\* lines 388-403: index of the first candidate that forms a named pattern with
\* the expected phoneme (0 when there is none); candidates mapped to None are
\* passed over and the scan goes on
FirstNamedCandidate_TopOnly(expected, candidates) ==
    IF /\ Len(candidates) > 0
       /\ InPatternMap(<<expected, candidates[1]>>)
       /\ PatternInfo(<<expected, candidates[1]>>).named
    THEN 1 ELSE 0
FirstNamedCandidate(expected, candidates) ==
    LET named == {i \in 1..Len(candidates) :
                    /\ InPatternMap(<<expected, candidates[i]>>)
                    /\ PatternInfo(<<expected, candidates[i]>>).named}
    IN IF named = {} THEN 0
       ELSE CHOOSE i \in named : \A j \in named : i <= j

\* line 416: the score test of the soft assessment
LowScore(p) == p.accuracy_score < SoftThreshold

\* lines 394-403: a candidate formed a named pattern: the pattern is listed
\* and the phoneme is marked incorrect with the candidate as what was said
NamedPatternFound_SaidUnset(ins, word, p, pattern_info, heard) ==
    [ins |-> [ins EXCEPT !.indian_english_patterns =
                Append(@, [word |-> word.word,
                           pattern_name |-> pattern_info.pattern_name,
                           hint |-> pattern_info.hint])],
     p |-> [p EXCEPT !.is_correct = FALSE]]
NamedPatternFound(ins, word, p, pattern_info, heard) ==
    [ins |-> [ins EXCEPT !.indian_english_patterns =
                Append(@, [word |-> word.word,
                           pattern_name |-> pattern_info.pattern_name,
                           hint |-> pattern_info.hint])],
     p |-> [p EXCEPT !.is_correct = FALSE, !.actually_said = SomeStr(heard)]]

\* lines 408-412 and 418-422: the word is listed once in minor_errors, with
\* the phoneme's score
FlagMinor(ins, word, p) ==
    IF word.word \notin ErrorWords(ins.minor_errors)
    THEN [ins EXCEPT !.minor_errors =
            Append(@, [word |-> word.word, score |-> p.accuracy_score])]
    ELSE ins

\* lines 406-422: no candidate formed a named pattern
NoPatternFound(ins, word, p) ==
    [ins |-> IF ~p.is_correct THEN FlagMinor(ins, word, p)
             ELSE IF LowScore(p) THEN FlagMinor(ins, word, p)
             ELSE ins,
     p |-> p]

\* lines 388-422 once the scan of the candidates stopped at candidate k
\* (0: no named pattern)
AfterCandidateScan(ins, word, p, k) ==
    IF k > 0
    THEN NamedPatternFound(ins, word, p,
                           PatternInfo(<<p.phoneme, p.nbest[k]>>), p.nbest[k])
    ELSE NoPatternFound(ins, word, p)

\* lines 381-422: one phoneme of a word; gives the insights and the phoneme
\* as the loop body leaves them
ScanPhoneme(ins, word, p) ==
    AfterCandidateScan(ins, word, p, FirstNamedCandidate(p.phoneme, p.nbest))

\* the phoneme written back at position n of the word
PutPhoneme(word, n, step) ==
    [ins |-> step.ins, word |-> [word EXCEPT !.phonemes[n] = step.p]]

ScanPhonemeAt(before, n) ==
    PutPhoneme(before.word, n,
               ScanPhoneme(before.ins, before.word, before.word.phonemes[n]))

RECURSIVE ScanPhonemes(_, _, _)
\* the loop of line 381 over the first n phonemes of the word
ScanPhonemes(ins, word, n) ==
    IF n = 0 THEN [ins |-> ins, word |-> word]
    ELSE ScanPhonemeAt(ScanPhonemes(ins, word, n - 1), n)

\* lines 425-432: consonant dropping at the end of the word
WeakFinalVowels == {"@", "I", "U"}

ScanLastPhoneme(ins, word) ==
    IF /\ Len(word.phonemes) > 0
       /\ ~word.phonemes[Len(word.phonemes)].is_correct
       /\ word.phonemes[Len(word.phonemes)].phoneme \notin WeakFinalVowels
    THEN [ins EXCEPT !.indian_english_patterns =
            Append(@, [word |-> word.word,
                       pattern_name |-> "consonant_dropping",
                       hint |-> "Last sound drop ho raha hai - pura word complete karo."])]
    ELSE ins

AfterPhonemes(scanned) ==
    [ins |-> ScanLastPhoneme(scanned.ins, scanned.word), word |-> scanned.word]

\* lines 362-432: the body of the loop over words_data
ScanWord(ins, word) ==
    AfterPhonemes(ScanPhonemes(ScanWordLevel(ins, word), word, Len(word.phonemes)))

\* the word written back at position n of words_data
PutWord(words, n, step) ==
    [ins |-> step.ins, words |-> [words EXCEPT ![n] = step.word]]

ScanWordAt(before, n) ==
    PutWord(before.words, n, ScanWord(before.ins, before.words[n]))

RECURSIVE ScanWords(_, _)
\* the loop of line 362 over the first n words
ScanWords(words, n) ==
    IF n = 0 THEN [ins |-> EmptyInsights, words |-> words]
    ELSE ScanWordAt(ScanWords(words, n - 1), n)

\* the key the three deduplications build: f"{pattern_name}_{word}"
PatternKey(pattern_name, word) == pattern_name \o "_" \o word

RECURSIVE KeepFirstByKey(_, _, _)
\* keep the entries whose key was not seen before, in order
KeepFirstByKey(entries, seen, unique) ==
    IF entries = <<>> THEN unique
    ELSE IF PatternKey(Head(entries).pattern_name, Head(entries).word) \in seen
         THEN KeepFirstByKey(Tail(entries), seen, unique)
         ELSE KeepFirstByKey(Tail(entries),
                             seen \cup {PatternKey(Head(entries).pattern_name,
                                                   Head(entries).word)},
                             Append(unique, Head(entries)))

\* lines 434-442: the deduplication at the end of the phoneme pass
ClassifyDedupe(patterns) == KeepFirstByKey(patterns, {}, <<>>)

\* lines 434-444: the insights returned, and words_data as the pass leaves it
\* (the pass writes is_correct and actually_said)
ClassifyResult(scanned) ==
    [insights |-> [scanned.ins EXCEPT !.indian_english_patterns = ClassifyDedupe(@)],
     words_data |-> scanned.words]

_classify_pronunciation_errors(words_data) ==
    ClassifyResult(ScanWords(words_data, Len(words_data)))

(***************************************************************************)
(* Part B - the text pass, _detect_text_mispronunciations                  *)
(* (hinglish_stt_service.py:746-788)                                       *)
(***************************************************************************)
\* lines 766-786: the body of the loop, for one entry of the dictionary
DetectEntry(entry, misspelling_lower, text_lower, words_lower, st) ==
    IF /\ \/ InSeq(misspelling_lower, words_lower)
          \/ Contains(text_lower, misspelling_lower)
       /\ PatternKey(entry.pattern_name, entry.correct_word) \notin st.seen_patterns
    THEN [seen_patterns |-> st.seen_patterns
                              \cup {PatternKey(entry.pattern_name, entry.correct_word)},
          patterns |-> Append(st.patterns,
                              [word |-> entry.correct_word,
                               detected_as |-> entry.misspelling,
                               pattern_name |-> entry.pattern_name,
                               hint |-> entry.hint])]
    ELSE st

RECURSIVE DetectFrom(_, _, _)
\* line 765: the loop over the first k entries of MISPRONUNCIATION_DICT
DetectFrom(k, text_lower, words_lower) ==
    IF k = 0 THEN [seen_patterns |-> {}, patterns |-> <<>>]
    ELSE DetectEntry(MISPRONUNCIATION_DICT[k], Lower(MISPRONUNCIATION_DICT[k].misspelling),
                     text_lower, words_lower,
                     DetectFrom(k - 1, text_lower, words_lower))

_detect_text_mispronunciations(text) ==
    [critical_errors |-> <<>>,
     minor_errors |-> <<>>,
     indian_english_patterns |->
         DetectFrom(Len(MISPRONUNCIATION_DICT), Lower(text), Split(Lower(text))).patterns]

(***************************************************************************)
(* Part B - _merge_insights  (hinglish_stt_service.py:909-947)             *)
(***************************************************************************)
NoInsights == [present |-> FALSE, v |-> EmptyInsights]
SomeInsights(ins) == [present |-> TRUE, v |-> ins]

\* lines 920-924: source.get(key, []) of a source that may be None
SourceList(source, key) == IF source.present THEN source.v[key] ELSE <<>>

\* lines 926-934: deduplicate patterns by word + pattern_name
MergeDedupe_Off(patterns) == patterns
MergeDedupe(patterns) == KeepFirstByKey(patterns, {}, <<>>)

RECURSIVE KeepFirstByWord(_, _, _)
\* lines 937-945: deduplicate errors by word, first occurrence wins
KeepFirstByWord_KeepAll(errors, seen_words, unique) == errors
KeepFirstByWord(errors, seen_words, unique) ==
    IF errors = <<>> THEN unique
    ELSE IF Head(errors).word \in seen_words
         THEN KeepFirstByWord(Tail(errors), seen_words, unique)
         ELSE KeepFirstByWord(Tail(errors), seen_words \cup {Head(errors).word},
                              Append(unique, Head(errors)))

_merge_insights(phoneme_ins, text_ins) ==
    [critical_errors |->
         KeepFirstByWord(SourceList(phoneme_ins, "critical_errors")
                             \o SourceList(text_ins, "critical_errors"), {}, <<>>),
     minor_errors |->
         KeepFirstByWord(SourceList(phoneme_ins, "minor_errors")
                             \o SourceList(text_ins, "minor_errors"), {}, <<>>),
     indian_english_patterns |->
         MergeDedupe(SourceList(phoneme_ins, "indian_english_patterns")
                         \o SourceList(text_ins, "indian_english_patterns"))]

(***************************************************************************)
(* Part B - transcribe_with_soft_assessment                                *)
(* (hinglish_stt_service.py:607-664)                                       *)
(***************************************************************************)
\* lines 652-656
has_meaningful_errors_Always(m) == TRUE
has_meaningful_errors(m) ==
    \/ Len(m.indian_english_patterns) > 0
    \/ Len(m.critical_errors) > 0
    \/ Len(m.minor_errors) > 0

\* _soft_pronunciation_pass (lines 792-905): None when the recognizer call
\* raises, recognises no speech or returns no word; else the phoneme pass over
\* the words_data built from the recognizer's answer
SoftPassRuns(azure, words_data) == azure = "recognized" /\ Len(words_data) > 0

\* line 641: the phoneme pass is attempted on texts of two words or more
NeedsPhonemePass_Always(text) == TRUE
NeedsPhonemePass(text) == Len(Split(text)) >= 2

(***************************************************************************)
(* Part B - inputs                                                         *)
(***************************************************************************)
\* recognised texts (transcription["text"])
Texts ==
    { "", " ", "water", "water please", "Vater please", "vater vhater",
      "I tink dat", "seven days" }

\* the text of the calls whose recognizer answer is varied freely
BaseText == "water please"

\* phoneme entries of the recognizer's answer: expected phoneme, accuracy
\* score and the ranked candidates (NBestPhonemes, most likely first)
\* with each candidate given by its "Phoneme"
AzurePhonemes ==
    { [Phoneme |-> "w", AccuracyScore |-> 85, NBestPhonemes |-> <<"w">>],
      [Phoneme |-> "w", AccuracyScore |-> 100, NBestPhonemes |-> <<"w", "v">>],
      [Phoneme |-> "w", AccuracyScore |-> 70, NBestPhonemes |-> <<"w">>],
      [Phoneme |-> "w", AccuracyScore |-> 85, NBestPhonemes |-> <<"v", "w">>],
      [Phoneme |-> "T", AccuracyScore |-> 85, NBestPhonemes |-> <<"s", "T">>],
      [Phoneme |-> "r_turned", AccuracyScore |-> 85,
       NBestPhonemes |-> <<"flap", "r_turned">>],
      [Phoneme |-> "@", AccuracyScore |-> 85, NBestPhonemes |-> <<"E">>],
      [Phoneme |-> "w", AccuracyScore |-> 85, NBestPhonemes |-> <<>>] }

\* word-level assessment of the recognizer's answer
WordLevels ==
    { [AccuracyScore |-> 90, ErrorType |-> "None"],
      [AccuracyScore |-> 55, ErrorType |-> "Mispronunciation"],
      [AccuracyScore |-> 90, ErrorType |-> "Mispronunciation"] }

\* first words of the answer
AzureWords ==
    { [Word |-> "water", AccuracyScore |-> l.AccuracyScore, ErrorType |-> l.ErrorType,
       Phonemes |-> ps]
      : l \in WordLevels, ps \in SeqsUpTo(AzurePhonemes, MaxPhonemes) }

\* the first words that are followed by a further word
AzureLeadWords ==
    { w \in AzureWords :
        \/ w.Phonemes = <<>>
        \/ w.Phonemes = << [Phoneme |-> "w", AccuracyScore |-> 85,
                            NBestPhonemes |-> <<"v", "w">>] >>
        \/ w.Phonemes = << [Phoneme |-> "w", AccuracyScore |-> 70,
                            NBestPhonemes |-> <<"w">>] >> }

\* a further word of the answer, after the first
AzureNextWords ==
    { [Word |-> "water", AccuracyScore |-> 90, ErrorType |-> "None",
       Phonemes |-> << [Phoneme |-> "w", AccuracyScore |-> 85,
                        NBestPhonemes |-> <<"v", "w">>] >>],
      [Word |-> "water", AccuracyScore |-> 70, ErrorType |-> "Mispronunciation",
       Phonemes |-> << [Phoneme |-> "w", AccuracyScore |-> 85,
                        NBestPhonemes |-> <<"w">>] >>],
      [Word |-> "think", AccuracyScore |-> 90, ErrorType |-> "None",
       Phonemes |-> << [Phoneme |-> "T", AccuracyScore |-> 70,
                        NBestPhonemes |-> <<"T", "t">>] >>],
      [Word |-> "win", AccuracyScore |-> 0, ErrorType |-> "Omission",
       Phonemes |-> << [Phoneme |-> "w", AccuracyScore |-> 0,
                        NBestPhonemes |-> <<"v">>] >>] }

\* answers of two words
AzureWordPairs == { <<w, x>> : w \in AzureLeadWords, x \in AzureNextWords }

\* the Words list of the recognizer's answer
AzureWordLists == {<<>>} \cup { <<w>> : w \in AzureWords } \cup AzureWordPairs

BuildWordsData(raw_words) ==
    [i \in 1..Len(raw_words) |-> MakeWordDetail(raw_words[i])]

AzureOutcomes == {"recognized", "raise", "nospeech"}

\* the analyzer instance before its first call (lines 31-33)
NoCall == [azure_phoneme_data |-> [Words |-> Absent], transcript |-> ""]
NoResult == [raised |-> FALSE, none |-> TRUE]

IdleD ==
    /\ linking_examples = <<>>
    /\ reduction_examples = <<>>
    /\ an_arg = NoCall
    /\ an_res = NoResult

\* the connections of the model
Conns == 1..MaxConns

\* the module's rate_limiter = RateLimiter() (rate_limiter.py:10-13, 72), and
\* no connection made yet
InitE ==
    /\ active_sessions = [u \in {} |-> 0]
    /\ hpc = [c \in Conns |-> "new"]
    /\ user_id = [c \in Conns |-> "test_user"]
    /\ closed = [c \in Conns |-> FALSE]
    /\ started = [c \in Conns |-> 0]
    /\ ended = [c \in Conns |-> 0]

\* Part C at rest
IdleC ==
    /\ cpc = "idle"
    /\ cfn = "none"
    /\ carg = <<>>
    /\ cres = <<>>

(***************************************************************************)
(* Part B - specification of one soft-assessment call                      *)
(***************************************************************************)
IdleA ==
    /\ configured = FALSE
    /\ pc = "idle"
    /\ task = [d \in Dims |-> "none"]
    /\ raw = [d \in Dims |-> DefaultData(d)]
    /\ grammar_data = NoGrammar
    /\ vocab_data = NoVocab
    /\ all_errors = <<>>
    /\ vi = 0
    /\ verdicts = <<>>
    /\ verified_errors = <<>>
    /\ synthSaw = [d \in Dims |-> "none"]
    /\ metrics = NoMetrics
    /\ outcome = "none"

IdleB ==
    /\ spc = "idle"
    /\ sText = ""
    /\ sAzure = "nospeech"
    /\ sWords = <<>>
    /\ sWordsIn = <<>>
    /\ phoneme_insights = NoInsights
    /\ text_insights = NoInsights
    /\ merged = NoInsights
    /\ pi = NoInsights

\* the audio of the call determines the recognised text and the recognizer's
\* pronunciation answer
InitB ==
    /\ spc = "ready"
    /\ sText \in Texts
    /\ sAzure \in AzureOutcomes
    /\ \E raw_words \in AzureWordLists :
         /\ (sAzure # "recognized" => raw_words = <<>>)
         /\ (sText = BaseText \/ raw_words \in {<<>>} \cup AzureWordPairs)
         /\ sWordsIn = BuildWordsData(raw_words)
    /\ sWords = sWordsIn
    /\ phoneme_insights = NoInsights
    /\ text_insights = NoInsights
    /\ merged = NoInsights
    /\ pi = NoInsights

\* transcribe_with_soft_assessment, lines 631-664
SoftAssess ==
    /\ spc = "ready"
    /\ spc' = "done"
    /\ IF sText = "" \/ Len(Split(sText)) < 1
       THEN /\ pi' = NoInsights
            /\ UNCHANGED <<sWords, phoneme_insights, text_insights, merged>>
       ELSE \E runs \in {NeedsPhonemePass(sText) /\ SoftPassRuns(sAzure, sWords)} :
            \E pass2 \in {IF runs THEN _classify_pronunciation_errors(sWords)
                                   ELSE [insights |-> EmptyInsights, words_data |-> sWords]} :
            \E t_ins \in {SomeInsights(_detect_text_mispronunciations(sText))} :
            \E p_ins \in {IF runs THEN SomeInsights(pass2.insights) ELSE NoInsights} :
            \E m \in {_merge_insights(p_ins, t_ins)} :
               /\ sWords' = pass2.words_data
               /\ phoneme_insights' = p_ins
               /\ text_insights' = t_ins
               /\ merged' = SomeInsights(m)
               /\ pi' = IF has_meaningful_errors(m) THEN SomeInsights(m) ELSE NoInsights
    /\ UNCHANGED <<sText, sAzure, sWordsIn>>
    /\ UNCHANGED <<varsA, varsC, varsD, varsE>>

\* _classify_pronunciation_errors applied to a words_data list on its own, as
\* assess_pronunciation does (line 221)
ClassifyCall ==
    /\ spc = "ready"
    /\ Len(sWords) > 0
    /\ spc' = "classified"
    /\ \E result \in {_classify_pronunciation_errors(sWords)} :
         /\ sWords' = result.words_data
         /\ phoneme_insights' = SomeInsights(result.insights)
    /\ UNCHANGED <<sText, sAzure, sWordsIn, text_insights, merged, pi>>
    /\ UNCHANGED <<varsA, varsC, varsD, varsE>>

\* _merge_insights applied to the outputs of the two passes, either of which
\* may be None
MergeCall ==
    /\ spc = "classified"
    /\ spc' = "merged"
    /\ \E ran \in {SomeInsights(_detect_text_mispronunciations(sText))} :
       \E p_ins \in {phoneme_insights, NoInsights}, t_ins \in {ran, NoInsights} :
         /\ phoneme_insights' = p_ins
         /\ text_insights' = t_ins
         /\ merged' = SomeInsights(_merge_insights(p_ins, t_ins))
    /\ UNCHANGED <<sText, sAzure, sWords, sWordsIn, pi>>
    /\ UNCHANGED <<varsA, varsC, varsD, varsE>>

NextSoft ==
    \/ SoftAssess
    \/ ClassifyCall
    \/ MergeCall

InitSoft == IdleA /\ InitB /\ IdleC /\ IdleD /\ InitE

SpecSoft == InitSoft /\ [][NextSoft]_vars

Init == InitA /\ IdleB /\ IdleC /\ IdleD /\ InitE

Next ==
    \/ Dispatch
    \/ \E d \in Dims : TaskSettle(d)
    \/ Join
    \/ VerifyStep
    \/ Synthesize

Spec == Init /\ [][Next]_vars

(***************************************************************************)
(* Part A - _verify_error_corrections on long error lists                  *)
(* (analysis_service.py:296-345)                                           *)
(***************************************************************************)
\* the longest run of unchanged corrections put in front of an error list
MaxPadding == 9

\* corrections with an empty side, next to those of ErrorRecords
VerifyRecords ==
    ErrorRecords \cup
    { [original |-> "", corrected |-> "I went",
       error_type |-> "wrong_tense_context", severity |-> "TIER_1"],
      [original |-> "He go", corrected |-> "",
       error_type |-> "Article_Error", severity |-> "TIER_2"] }

\* n copies of a correction that changes nothing but case and spacing
Padding(n) ==
    [i \in 1..n |-> [original |-> "I Went", corrected |-> "i went ",
                     error_type |-> "minor_tense_slip", severity |-> "tier_3"]]

\* error lists of up to MaxPadding + 2 entries
VerifyInputs ==
    SeqsUpTo(VerifyRecords, 1)
      \cup { Padding(n) \o tail : n \in 0..MaxPadding, tail \in [1..2 -> VerifyRecords] }

\* analyze() at line 481, about to verify the errors of a grammar answer
InitVerify ==
    /\ configured = TRUE
    /\ pc = "verify"
    /\ task = [d \in Dims |-> "ok"]
    /\ \E es \in VerifyInputs :
         /\ raw = [d \in Dims |->
                     IF d = "grammar"
                     THEN [grammar_score |-> 40, grammatical_errors |-> es,
                           sentence_structures |-> <<>>, score |-> Absent]
                     ELSE DefaultData(d)]
         /\ all_errors = es
    /\ grammar_data = classify_errors(raw["grammar"])
    /\ vocab_data = [overall_vocabulary |-> 62, score |-> Absent]
    /\ vi = 0
    /\ verdicts = <<>>
    /\ verified_errors = <<>>
    /\ synthSaw = [d \in Dims |-> "none"]
    /\ metrics = NoMetrics
    /\ outcome = "none"

InitVerifyCall == InitVerify /\ IdleB /\ IdleC /\ IdleD /\ InitE

NextVerify ==
    \/ VerifyStep
    \/ Synthesize

SpecVerify == InitVerifyCall /\ [][NextVerify]_vars

(***************************************************************************)
(* Part C - calls of the scoring functions, one function per action        *)
(***************************************************************************)
\* the phoneme symbols of PHONEME_EQUIVALENTS and PATTERN_MAP
TableSymbols ==
    {pr[1] : pr \in PHONEME_EQUIVALENTS} \cup {pr[2] : pr \in PHONEME_EQUIVALENTS}
      \cup {e.key[1] : e \in PATTERN_MAP} \cup {e.key[2] : e \in PATTERN_MAP}

\* arguments of _is_phoneme_acceptable: the expected symbol and the heard one,
\* which may be None
AcceptableArgs ==
    { [expected |-> a, actually_said |-> b]
      : a \in TableSymbols, b \in {NoneStr} \cup {SomeStr(x) : x \in TableSymbols} }

\* _is_phoneme_acceptable(expected, actually_said)
AcceptableCall ==
    /\ cpc = "ready"
    /\ cfn = "_is_phoneme_acceptable"
    /\ cpc' = "done"
    /\ cres' = _is_phoneme_acceptable(carg.expected, carg.actually_said)
    /\ UNCHANGED <<cfn, carg>>
    /\ UNCHANGED <<varsA, varsB, varsD, varsE>>

\* one error of each tier as the grammar answer carries it: a severity tag,
\* an error_type outside the taxonomy (the TIER_2 default), a lower-case tag
\* with a TIER_3 error_type
TierError(tier) ==
    CASE tier = "TIER_1" ->
           [original |-> "I go", corrected |-> "I went",
            error_type |-> "wrong_tense_context", severity |-> "TIER_1"]
      [] tier = "TIER_2" ->
           [original |-> "a apple", corrected |-> "an apple",
            error_type |-> "Article_Error", severity |-> ""]
      [] tier = "TIER_3" ->
           [original |-> "I Went", corrected |-> "i went ",
            error_type |-> "minor_tense_slip", severity |-> "tier_3"]

\* n errors of the tier
TierErrors(tier, n) == [i \in 1..n |-> TierError(tier)]

\* sentence structures of a grammar answer
StructKinds ==
    { [type |-> "simple", features |-> {}],
      [type |-> "Compound-Complex", features |-> {"relative_clause"}],
      [type |-> "complex", features |-> {"passive_voice", "conditional"}] }

\* arguments of classify_errors: the answer and the number of its errors per
\* tier
ClassifyErrorsArgs ==
    { [n1 |-> n1, n2 |-> n2, n3 |-> n3,
       gemini_analysis |->
         [grammatical_errors |-> TierErrors("TIER_1", n1) \o TierErrors("TIER_2", n2)
                                   \o TierErrors("TIER_3", n3),
          sentence_structures |-> ss]]
      : n1 \in 0..MaxTierErrors, n2 \in {0, 1, 3}, n3 \in {0, 2},
        ss \in SeqsUpTo(StructKinds, MaxStructs) }

\* GrammarErrorClassifier.classify_errors(gemini_analysis)
ClassifyErrorsCall ==
    /\ cpc = "ready"
    /\ cfn = "classify_errors"
    /\ cpc' = "done"
    /\ cres' = classify_errors(carg.gemini_analysis)
    /\ UNCHANGED <<cfn, carg>>
    /\ UNCHANGED <<varsA, varsB, varsD, varsE>>

(***************************************************************************)
(* ConfidenceCalculator._calculate_metric_confidence                       *)
(* (confidence_calculator.py:66-118)                                       *)
(*                                                                         *)
(* Confidences are exact fractions num/den; the reported score and margin  *)
(* are kept in tenths (score10, margin10), as round(x, 1) leaves one       *)
(* decimal.  round() of a value that lies exactly halfway between two      *)
(* tenths goes to the neighbour the binary representation of the float     *)
(* product happens to favour: both neighbours are outcomes, selected by    *)
(* the parameter tie (0: lower, 1: upper).                                 *)
(***************************************************************************)
\* lines 76-84: base confidence from audio quality, in hundredths
BaseConfidence(audio_quality) ==
    IF audio_quality >= 90 THEN 95
    ELSE IF audio_quality >= 75 THEN 85
    ELSE IF audio_quality >= 60 THEN 70
    ELSE 50

\* lines 86-92
MinSample(metric_type) ==
    CASE metric_type = "pronunciation" -> 30
      [] metric_type = "fluency" -> 45
      [] OTHER -> 50

\* line 95: min(1.0, sample_size / min_sample), as a fraction
RawSampleFactor(sample_size, min_sample) ==
    IF sample_size >= min_sample THEN [num |-> 1, den |-> 1]
    ELSE [num |-> sample_size, den |-> min_sample]

\* lines 97-99: a factor under 0.2 is halved
PenalisedFactor_Above(f) ==
    IF 5 * f.num >= f.den THEN [num |-> f.num, den |-> 2 * f.den] ELSE f
PenalisedFactor(f) ==
    IF 5 * f.num < f.den THEN [num |-> f.num, den |-> 2 * f.den] ELSE f

\* lines 95-99
SampleFactor_NoPenalty(sample_size, min_sample) ==
    RawSampleFactor(sample_size, min_sample)
SampleFactor(sample_size, min_sample) ==
    PenalisedFactor(RawSampleFactor(sample_size, min_sample))

\* line 101: final_confidence = base_confidence * sample_factor, as a fraction
FinalConfidence(audio_quality, sample_size, metric_type) ==
    [num |-> BaseConfidence(audio_quality)
               * SampleFactor(sample_size, MinSample(metric_type)).num,
     den |-> 100 * SampleFactor(sample_size, MinSample(metric_type)).den]

\* round(n / d) to the nearest integer, a halfway value going where tie says
RoundFraction(n, d, tie) ==
    IF 2 * (n % d) > d THEN (n \div d) + 1
    ELSE IF 2 * (n % d) < d THEN n \div d
    ELSE (n \div d) + tie

\* lines 107-112
ConfidenceLevel(fc) ==
    IF 10 * fc.num >= 9 * fc.den THEN "HIGH"
    ELSE IF 4 * fc.num >= 3 * fc.den THEN "MEDIUM"
    ELSE "LOW"

\* lines 103-118 for the final confidence fc
ConfidenceResult(fc, ties) ==
    [level |-> ConfidenceLevel(fc),
     score10 |-> RoundFraction(1000 * fc.num, fc.den, ties.score),
     margin10 |-> RoundFraction(150 * (fc.den - fc.num), fc.den, ties.margin)]

_calculate_metric_confidence(audio_quality, sample_size, metric_type, ties) ==
    ConfidenceResult(FinalConfidence(audio_quality, sample_size, metric_type), ties)

\* the two halfway choices of one call, for the score and for the margin
TieChoices == [score : {0, 1}, margin : {0, 1}]

\* audio qualities around the steps of the base confidence
Qualities == {59, 60, 75, 89, 95}

MetricTypes == {"pronunciation", "fluency", "grammar"}

\* arguments of two calls for one metric type, the second with no less audio
\* quality and no smaller sample than the first
MetricConfidenceArgs ==
    { a \in [metric_type : MetricTypes,
             q1 : Qualities, q2 : Qualities,
             s1 : 0..MaxSample, s2 : 0..MaxSample]
      : a.q1 <= a.q2 /\ a.s1 <= a.s2 }

\* two fractions of equal value
SameFraction(a, b) == a.num * b.den = b.num * a.den

\* _calculate_metric_confidence on the two argument lists; the float products
\* of two calls with the same final confidence round alike
MetricConfidenceCall ==
    /\ cpc = "ready"
    /\ cfn = "_calculate_metric_confidence"
    /\ cpc' = "done"
    /\ \E t1 \in TieChoices, t2 \in TieChoices :
         /\ SameFraction(FinalConfidence(carg.q1, carg.s1, carg.metric_type),
                         FinalConfidence(carg.q2, carg.s2, carg.metric_type))
               => t1 = t2
         /\ cres' = << _calculate_metric_confidence(carg.q1, carg.s1, carg.metric_type, t1),
                       _calculate_metric_confidence(carg.q2, carg.s2, carg.metric_type, t2) >>
    /\ UNCHANGED <<cfn, carg>>
    /\ UNCHANGED <<varsA, varsB, varsD, varsE>>

\* texts handed to the CEFR classifier
CefrTexts ==
    { "", "Water", "I like green tea.", "2 cats 4 dogs 6 birds 8 mice",
      "I like tea. We like it.", "No. No. No. No. No. No. No. No. No. No.",
      "the the the the the the the the the the",
      "go go go go go go go go go go go go go go go go go go go go",
      "Tea is. hot we. like Tea. is hot. we like. Tea is 2 4." }

ClassifyArgs ==
    { [type |-> "str", text |-> t] : t \in CefrTexts }
    \cup { [type |-> "AnalysisMetrics", text |-> ""] }

\* CEFRClassifier.classify
CefrClassifyCall ==
    /\ cpc = "ready"
    /\ cfn = "classify"
    /\ cpc' = "done"
    /\ cres' = IF classify(carg).raised
               THEN [raised |-> TRUE, error |-> classify(carg).error]
               ELSE [raised |-> FALSE, value |-> classify_text(carg.text)]
    /\ UNCHANGED <<cfn, carg>>
    /\ UNCHANGED <<varsA, varsB, varsD, varsE>>

(***************************************************************************)
(* FluencyRecalibrator._adjust_prosody  (fluency_recalibrator.py:124-135)  *)
(* The result is kept in hundredths of a point.                            *)
(***************************************************************************)
_adjust_prosody(azure_prosody) ==
    IF azure_prosody >= 90 THEN 7500 + (azure_prosody - 90) * 50
    ELSE IF azure_prosody >= 70 THEN 6000 + (azure_prosody - 70) * 75
    ELSE azure_prosody * 85

\* two raw prosody scores, the second no smaller than the first
ProsodyArgs ==
    { a \in [p1 : 0..100, p2 : 0..100] : a.p1 <= a.p2 }

\* _adjust_prosody on each of the two scores
AdjustProsodyCall ==
    /\ cpc = "ready"
    /\ cfn = "_adjust_prosody"
    /\ cpc' = "done"
    /\ cres' = << _adjust_prosody(carg.p1), _adjust_prosody(carg.p2) >>
    /\ UNCHANGED <<cfn, carg>>
    /\ UNCHANGED <<varsA, varsB, varsD, varsE>>

InitCalc ==
    /\ IdleA
    /\ IdleD
    /\ InitE
    /\ IdleB
    /\ cpc = "ready"
    /\ cres = <<>>
    /\ \/ cfn = "_is_phoneme_acceptable" /\ carg \in AcceptableArgs
       \/ cfn = "classify_errors" /\ carg \in ClassifyErrorsArgs
       \/ cfn = "_calculate_metric_confidence" /\ carg \in MetricConfidenceArgs
       \/ cfn = "classify" /\ carg \in ClassifyArgs
       \/ cfn = "_adjust_prosody" /\ carg \in ProsodyArgs

NextCalc ==
    \/ AcceptableCall
    \/ ClassifyErrorsCall
    \/ MetricConfidenceCall
    \/ CefrClassifyCall
    \/ AdjustProsodyCall

SpecCalc == InitCalc /\ [][NextCalc]_vars

(***************************************************************************)
(* Part D - ConnectedSpeechAnalyzer  (connected_speech_analyzer.py)        *)
(*                                                                         *)
(* One analyzer instance receives analyze() calls one after another.      *)
(* Durations and offsets are in 100 ns ticks, as the recognizer reports    *)
(* them.  Scores, start times and the variance are floats, computed with   *)
(* the operations of the code in the code's order; the reported, rounded   *)
(* values are in tenths.  Phoneme symbols are written in ASCII, with       *)
(* aU = U+0061+U+028A, aI = U+0061+U+026A, OI = U+0254+U+026A.              *)
(***************************************************************************)
\* lines 129, 133, 178, 196, 198: ticks per millisecond
TicksPerMs == 10000

\* lines 9-21
LINKING_PATTERNS ==
    [ CV_LINKING |-> << <<"k", "i">>, <<"n", "A">>, <<"t", "aU">> >>,
      VV_LINKING |-> << <<"i:", "A">>, <<"u:", "I">> >> ]

\* lines 23-29, in the order of the dict
REDUCTION_PATTERNS ==
    << [key |-> "going to",    reduced |-> "gonna"],
       [key |-> "want to",     reduced |-> "wanna"],
       [key |-> "have to",     reduced |-> "hafta"],
       [key |-> "got to",      reduced |-> "gotta"],
       [key |-> "going to be", reduced |-> "gonna be"] >>

\* line 112
vowels ==
    << "a", "e", "i", "o", "u", "ae", "A", "O", "@", "E", "I", "U", "V",
       "aU", "aI", "OI", "eI", "oU", "i:", "u:" >>

\* lines 98-105: the phonemes of one word, each carrying the word
ProcessedPhonemes(word) ==
    [ j \in 1..Len(word.Phonemes) |->
        [phoneme  |-> word.Phonemes[j].Phoneme,
         duration |-> word.Phonemes[j].Duration,
         offset   |-> word.Phonemes[j].Offset,
         word     |-> word.Word] ]

\* lines 92-107
_extract_phonemes(words_data) ==
    [ i \in 1..Len(words_data) |-> ProcessedPhonemes(words_data[i]) ]

\* lines 109-124
_is_linkable(end_phoneme, start_phoneme) ==
    \/ \E t \in DOMAIN LINKING_PATTERNS :
          InSeq(<<end_phoneme, start_phoneme>>, LINKING_PATTERNS[t])
    \/ ~InSeq(end_phoneme, vowels) /\ InSeq(start_phoneme, vowels)

\* lines 126-136: a gap under 30 ms after a phoneme shorter than 60 ms
_is_linked(p1_data, p2_data) ==
    /\ p2_data.offset - (p1_data.offset + p1_data.duration) < 30 * TicksPerMs
    /\ p1_data.duration < 60 * TicksPerMs

\* lines 142-149: word boundary i is a linking opportunity
IsOpportunity(phoneme_sequence, i) ==
    /\ phoneme_sequence[i] # <<>>
    /\ phoneme_sequence[i + 1] # <<>>
    /\ _is_linkable(phoneme_sequence[i][Len(phoneme_sequence[i])].phoneme,
                    phoneme_sequence[i + 1][1].phoneme)

\* lines 151-153: the opportunity at boundary i was taken
IsLinkMade(phoneme_sequence, i) ==
    /\ IsOpportunity(phoneme_sequence, i)
    /\ _is_linked(phoneme_sequence[i][Len(phoneme_sequence[i])],
                  phoneme_sequence[i + 1][1])

LinkOpportunities(phoneme_sequence) ==
    {i \in 1..(Len(phoneme_sequence) - 1) : IsOpportunity(phoneme_sequence, i)}

LinksMade(phoneme_sequence) ==
    {i \in 1..(Len(phoneme_sequence) - 1) : IsLinkMade(phoneme_sequence, i)}

RECURSIVE LinkExamplesFrom(_, _)
\* line 153: the examples appended from boundary i on
LinkExamplesFrom(phoneme_sequence, i) ==
    IF i > Len(phoneme_sequence) - 1 THEN <<>>
    ELSE IF IsLinkMade(phoneme_sequence, i)
         THEN <<phoneme_sequence[i][1].word \o " -> " \o phoneme_sequence[i + 1][1].word>>
                  \o LinkExamplesFrom(phoneme_sequence, i + 1)
         ELSE LinkExamplesFrom(phoneme_sequence, i + 1)

\* lines 155-157
RatioScore(made, opportunities) ==
    IF opportunities = 0 THEN FloatOfInt(70)
    ELSE FloatMul(FloatDiv(FloatOfInt(made), opportunities), FloatOfInt(100))

\* lines 138-157: the score returned
_detect_linking(phoneme_sequence) ==
    RatioScore(Cardinality(LinksMade(phoneme_sequence)),
               Cardinality(LinkOpportunities(phoneme_sequence)))

\* line 168: words[i:i+len(p_words)] == p_words, i counted from 0
PhraseAt(words, p_words, i) ==
    /\ i + Len(p_words) <= Len(words)
    /\ SubSeq(words, i + 1, i + Len(p_words)) = p_words

\* line 174: words_data[i+j] exists for every word of the phrase
PhraseInData(words_data, p_words, i) == i + Len(p_words) <= Len(words_data)

\* lines 172-174
CombinedDuration(words_data, p_words, i) ==
    SumSeq([j \in 1..Len(p_words) |-> words_data[i + j].Duration])

\* lines 178-179
IsReduced(words_data, p_words, i) ==
    CombinedDuration(words_data, p_words, i) < Len(p_words) * 150 * TicksPerMs

\* the counters and the example list of _detect_reductions
NoReductions ==
    [opportunities |-> 0, reductions_made |-> 0, examples |-> <<>>, raised |-> FALSE]

\* lines 169-181 for one occurrence of pattern pat at word i
CountOccurrence(acc, words_data, pat, i) ==
    IF ~PhraseInData(words_data, Split(pat.key), i)
    THEN [acc EXCEPT !.opportunities = @ + 1, !.raised = TRUE]
    ELSE IF IsReduced(words_data, Split(pat.key), i)
         THEN [acc EXCEPT !.opportunities = @ + 1,
                          !.reductions_made = @ + 1,
                          !.examples = Append(@, pat.key \o " -> " \o pat.reduced)]
         ELSE [acc EXCEPT !.opportunities = @ + 1]

RECURSIVE ScanReductions(_, _, _, _, _)
\* lines 165-181: pattern k of the dict, word i of the transcript (from 0);
\* an index past the end of words_data ends the scan with IndexError
ScanReductions(words, words_data, k, i, acc) ==
    IF acc.raised \/ k > Len(REDUCTION_PATTERNS) THEN acc
    ELSE IF i + Len(Split(REDUCTION_PATTERNS[k].key)) > Len(words)
         THEN ScanReductions(words, words_data, k + 1, 0, acc)
         ELSE IF PhraseAt(words, Split(REDUCTION_PATTERNS[k].key), i)
              THEN ScanReductions(words, words_data, k, i + 1,
                       CountOccurrence(acc, words_data, REDUCTION_PATTERNS[k], i))
              ELSE ScanReductions(words, words_data, k, i + 1, acc)

\* lines 159-181; words = transcript.lower().split() is computed once (line 163)
ReductionScan(transcript, words_data) ==
    CHOOSE scan \in { ScanReductions(words, words_data, 1, 0, NoReductions)
                      : words \in {Split(Lower(transcript))} } : TRUE

\* lines 183-185
_detect_reductions(scan) == RatioScore(scan.reductions_made, scan.opportunities)

RECURSIVE StressedStarts(_)
\* lines 195-201: start_time = Offset / 10000.0 of the words with
\* Duration / 10000.0 > 250, which holds exactly for more than 250 ms of ticks
StressedStarts(words_data) ==
    IF words_data = <<>> THEN <<>>
    ELSE IF Head(words_data).Duration > 250 * TicksPerMs
         THEN <<FloatDiv(FloatOfInt(Head(words_data).Offset), TicksPerMs)>>
                  \o StressedStarts(Tail(words_data))
         ELSE StressedStarts(Tail(words_data))

\* lines 199-200: the intervals between successive stressed words
Intervals(starts) ==
    [ i \in 1..(Len(starts) - 1) |-> FloatSub(starts[i + 1], starts[i]) ]

RECURSIVE SumFrom(_, _, _)
\* res + x[i] + ... + x[Len(x)], added one after another
SumFrom(x, i, res) ==
    IF i > Len(x) THEN res ELSE SumFrom(x, i + 1, FloatAdd(res, x[i]))

RECURSIVE LaneSum(_, _, _, _)
\* res + x[i] + x[i + 8] + ... up to index last
LaneSum(x, i, last, res) ==
    IF i > last THEN res ELSE LaneSum(x, i + 8, last, FloatAdd(res, x[i]))

\* the eight partial sums over the whole blocks of 8 of x
Lanes(x) ==
    [ j \in 1..8 |-> LaneSum(x, j + 8, Len(x) - (Len(x) % 8), x[j]) ]

\* ((r0 + r1) + (r2 + r3)) + ((r4 + r5) + (r6 + r7))
LanesTotal(r) ==
    FloatAdd(FloatAdd(FloatAdd(r[1], r[2]), FloatAdd(r[3], r[4])),
             FloatAdd(FloatAdd(r[5], r[6]), FloatAdd(r[7], r[8])))

RECURSIVE pairwise_sum(_)
\* numpy's sum of a float64 array: one after another below 8 elements,
\* in eight lanes up to 128, in two halves above
pairwise_sum(x) ==
    IF Len(x) < 8 THEN SumFrom(x, 1, FloatZero)
    ELSE IF Len(x) <= 128
         THEN SumFrom(x, Len(x) - (Len(x) % 8) + 1, LanesTotal(Lanes(x)))
         ELSE FloatAdd(
                pairwise_sum(SubSeq(x, 1, (Len(x) \div 2) - ((Len(x) \div 2) % 8))),
                pairwise_sum(SubSeq(x, (Len(x) \div 2) - ((Len(x) \div 2) % 8) + 1,
                                    Len(x))))

\* (x[i] - mean)^2 for each element
SquaredDeviations(x, mean) ==
    [ i \in 1..Len(x) |-> FloatMul(FloatSub(x[i], mean), FloatSub(x[i], mean)) ]

\* line 207: np.var(x), the mean of the squared deviations from the mean
np_var(x) ==
    FloatDiv(pairwise_sum(SquaredDeviations(x, FloatDiv(pairwise_sum(x), Len(x)))),
             Len(x))

\* lines 209-216, the literals being the floats nearest to 1/10, 3/10 and 3/5
StressBand(variance) ==
    IF FloatLess(variance, FloatDiv(FloatOfInt(1), 10)) THEN 90
    ELSE IF FloatLess(variance, FloatDiv(FloatOfInt(3), 10)) THEN 75
    ELSE IF FloatLess(variance, FloatDiv(FloatOfInt(3), 5)) THEN 60
    ELSE 45

\* lines 203-216: variance = np.var(intervals) / 1000.0
StressScore(intervals) ==
    IF intervals = <<>> THEN 50
    ELSE StressBand(FloatDiv(np_var(intervals), 1000))

\* lines 187-216
_analyze_stress_timing(words_data) == StressScore(Intervals(StressedStarts(words_data)))

\* list[:3]
FirstThree(s) == SubSeq(s, 1, Min(3, Len(s)))

\* lines 218-223, in tenths
_empty_result ==
    [raised |-> FALSE,
     connected_speech_score10 |-> 500,
     breakdown |-> [linking10 |-> 500, reduction10 |-> 500, stress_timing10 |-> 500],
     examples |-> [linking_detected |-> <<>>, reductions_detected |-> <<>>]]

\* lines 73-77: linking_score * 0.40 + reduction_score * 0.30
\* + stress_score * 0.30, the literals being the floats nearest to 2/5 and 3/10
Overall(linking_score, reduction_score, stress_score) ==
    FloatAdd(FloatAdd(FloatMul(linking_score, FloatDiv(FloatOfInt(2), 5)),
                      FloatMul(reduction_score, FloatDiv(FloatOfInt(3), 10))),
             FloatMul(FloatOfInt(stress_score), FloatDiv(FloatOfInt(3), 10)))

\* lines 79-90
AnalyzeResult(linking_score, reduction_score, stress_score, links, reductions) ==
    [raised |-> FALSE,
     connected_speech_score10 |->
         RoundTenths(Overall(linking_score, reduction_score, stress_score)),
     breakdown |->
         [linking10 |-> RoundTenths(linking_score),
          reduction10 |-> RoundTenths(reduction_score),
          stress_timing10 |-> 10 * stress_score],
     examples |-> [linking_detected |-> FirstThree(links),
                   reductions_detected |-> FirstThree(reductions)]]

\* the IndexError of words_data[i+j] leaves analyze
AnalyzeRaised == [raised |-> TRUE, error |-> "IndexError"]

\* lines 57-90 for non-empty words_data and the finished reduction scan
AnalyzeWords(words_data, scan) ==
    IF scan.raised THEN AnalyzeRaised
    ELSE AnalyzeResult(_detect_linking(_extract_phonemes(words_data)),
                       _detect_reductions(scan),
                       _analyze_stress_timing(words_data),
                       LinkExamplesFrom(_extract_phonemes(words_data), 1),
                       scan.examples)

\* azure_phoneme_data.get("Words", [])
WordsOf(azure_phoneme_data) == Get(azure_phoneme_data.Words, <<>>)

\* lines 35-90: what analyze returns or raises
analyze(azure_phoneme_data, transcript) ==
    IF WordsOf(azure_phoneme_data) = <<>> THEN _empty_result
    ELSE AnalyzeWords(WordsOf(azure_phoneme_data),
                      ReductionScan(transcript, WordsOf(azure_phoneme_data)))

(***************************************************************************)
(* Part D - inputs                                                         *)
(***************************************************************************)
\* the words a speaker may say: text, duration (ms), the first and the last
\* phoneme with the last one's duration (ms), and the pause after the word
SpokenWords ==
    { [Word |-> "Going", ms |-> 140, first |-> "",   last |-> "",   last_ms |-> 0,  pause |-> 10],
      [Word |-> "to",    ms |-> 140, first |-> "t",  last |-> "u:", last_ms |-> 50, pause |-> 10],
      [Word |-> "check", ms |-> 300, first |-> "tS", last |-> "k",  last_ms |-> 50, pause |-> 10],
      [Word |-> "it",    ms |-> 280, first |-> "I",  last |-> "t",  last_ms |-> 50, pause |-> 50] }

\* the recognizer's entry for word w starting at start_ms; "Going" comes
\* without phonemes
AzureWord(w, start_ms) ==
    [Word |-> w.Word,
     Duration |-> w.ms * TicksPerMs,
     Offset |-> start_ms * TicksPerMs,
     Phonemes |->
        IF w.first = "" THEN <<>>
        ELSE << [Phoneme |-> w.first,
                 Duration |-> (w.ms - w.last_ms) * TicksPerMs,
                 Offset |-> start_ms * TicksPerMs],
                [Phoneme |-> w.last,
                 Duration |-> w.last_ms * TicksPerMs,
                 Offset |-> (start_ms + w.ms - w.last_ms) * TicksPerMs] >>]

RECURSIVE Timeline(_, _)
\* the recognizer's word list for the spoken words ws, the first at start_ms
Timeline(ws, start_ms) ==
    IF ws = <<>> THEN <<>>
    ELSE <<AzureWord(Head(ws), start_ms)>>
            \o Timeline(Tail(ws), start_ms + Head(ws).ms + Head(ws).pause)

RECURSIVE JoinWords(_)
\* the transcript of a word list
JoinWords(words_data) ==
    IF words_data = <<>> THEN ""
    ELSE IF Len(words_data) = 1 THEN Head(words_data).Word
    ELSE Head(words_data).Word \o " " \o JoinWords(Tail(words_data))

Utterances == { Timeline(ws, 0) : ws \in SeqsUpTo(SpokenWords, MaxWords) }

\* the word of SpokenWords with the given text
Spoken(text) == CHOOSE w \in SpokenWords : w.Word = text

\* the words ws said n times in a row
Repeated(ws, n) == [i \in 1..(n * Len(ws)) |-> ws[((i - 1) % Len(ws)) + 1]]

\* "check it" and "Going to" said MaxWords + 1 times in a row
LongUtterances ==
    { Timeline(Repeated(ws, MaxWords + 1), 0)
      : ws \in { <<Spoken("check"), Spoken("it")>>, <<Spoken("Going"), Spoken("to")>> } }

\* "Going to" said slowly, 400 ms for the two words
SlowGoingTo ==
    << [Word |-> "Going", ms |-> 190, first |-> "",  last |-> "",   last_ms |-> 0,  pause |-> 10],
       [Word |-> "to",    ms |-> 190, first |-> "t", last |-> "u:", last_ms |-> 50, pause |-> 10] >>

\* "Going to" said MaxRepeats times in a row, the first k times fast and then
\* slowly
MixedUtterances ==
    { Timeline(Repeated(<<Spoken("Going"), Spoken("to")>>, k)
                 \o Repeated(SlowGoingTo, MaxRepeats - k), 0)
      : k \in 0..MaxRepeats }

\* "check it" in 200 ms words, "it" coming the given pause after "check"
QuickCheckIt(pause) ==
    << [Word |-> "check", ms |-> 200, first |-> "tS", last |-> "k", last_ms |-> 50, pause |-> pause],
       [Word |-> "it",    ms |-> 200, first |-> "I",  last |-> "t", last_ms |-> 50, pause |-> 50] >>

\* "check it" said MaxLinks times, linked the first time only, and then
\* "Going to" said MaxRepeats times, the first three times fast
ManyOpportunities ==
    { Timeline(QuickCheckIt(10) \o Repeated(QuickCheckIt(40), MaxLinks - 1)
                 \o Repeated(<<Spoken("Going"), Spoken("to")>>, 3)
                 \o Repeated(SlowGoingTo, MaxRepeats - 3), 0) }

\* a word of 251 ms, reported without phonemes, that starts at the tick offset
LongWordAt(offset) ==
    [Word |-> "check", Duration |-> 251 * TicksPerMs, Offset |-> offset,
     Phonemes |-> <<>>]

\* the ticks at which the words of four utterances start: between two
\* milliseconds in the first three, at whole milliseconds in the last
StartTicks ==
    { <<0, 4005000, 8200000>>,
      <<9000, 4000000, 8199000>>,
      <<0, 3000000, 6349999>>,
      <<0, 3220000, 6370000, 9450000, 12580000, 15860000, 19090000, 22460000,
        25700000, 29100000>> }

\* utterances of long words starting at these ticks
TickUtterances ==
    { [i \in 1..Len(offsets) |-> LongWordAt(offsets[i])] : offsets \in StartTicks }

\* a call's arguments: the recognizer data (the "Words" key may be missing)
\* with the matching transcript, an empty one, or one of another utterance
AnalyzeArgs ==
    { [azure_phoneme_data |-> [Words |-> Some(u)], transcript |-> t]
      : u \in Utterances, t \in {"", "So going to"} }
    \cup { [azure_phoneme_data |-> [Words |-> Some(u)], transcript |-> JoinWords(u)]
           : u \in Utterances }
    \cup { [azure_phoneme_data |-> [Words |-> Some(u)], transcript |-> JoinWords(u)]
           : u \in LongUtterances \cup MixedUtterances \cup TickUtterances
                  \cup ManyOpportunities }
    \cup { [azure_phoneme_data |-> [Words |-> Absent], transcript |-> "check it"] }

\* line 153 and line 181: what the instance's lists hold when analyze is left
ListsAfter(words_data, scan) ==
    IF words_data = <<>> THEN [linking |-> <<>>, reduction |-> <<>>]
    ELSE [linking |-> LinkExamplesFrom(_extract_phonemes(words_data), 1),
          reduction |-> scan.examples]

\* one analyze(azure_phoneme_data, transcript) call: what it returns or raises
\* and what it leaves in the instance's lists (reset at lines 54-55)
AnalyzeOutcome(a) ==
    [res |-> analyze(a.azure_phoneme_data, a.transcript),
     lists |-> ListsAfter(WordsOf(a.azure_phoneme_data),
                          ReductionScan(a.transcript, WordsOf(a.azure_phoneme_data)))]

\* the outcome of the call for each argument list
AnalyzeOutcomes == [a \in AnalyzeArgs |-> AnalyzeOutcome(a)]

\* lines 54-55: analyze empties the instance's lists before anything else
ResetExamples_Keep(examples) == examples
ResetExamples(examples) == <<>>

\* lines 86-89: the examples of a returned result are read from the
\* instance's lists
ReturnedWith(res, words_data, linking, reduction) ==
    IF res.raised \/ words_data = <<>> THEN res
    ELSE [res EXCEPT !.examples = [linking_detected |-> FirstThree(linking),
                                   reductions_detected |-> FirstThree(reduction)]]

\* analyze(azure_phoneme_data, transcript) on the instance
Analyze(a) ==
    /\ an_arg' = a
    /\ \E o \in {AnalyzeOutcomes[a]} :
         /\ linking_examples' = ResetExamples(linking_examples) \o o.lists.linking
         /\ reduction_examples' = ResetExamples(reduction_examples) \o o.lists.reduction
         /\ an_res' = ReturnedWith(o.res, WordsOf(a.azure_phoneme_data),
                                   linking_examples', reduction_examples')
    /\ UNCHANGED <<varsA, varsB, varsC, varsE>>

InitSpeech == IdleA /\ IdleB /\ IdleC /\ IdleD /\ InitE

NextSpeech == \E a \in AnalyzeArgs : Analyze(a)

SpecSpeech == InitSpeech /\ [][NextSpeech]_vars

(***************************************************************************)
(* Part E - the tutor WebSocket route and the session counts               *)
(* (streaming_tutor.py:14-146, rate_limiter.py:58-69)                      *)
(*                                                                         *)
(* The handlers are coroutines of one event loop: a handler runs alone     *)
(* from one await to the next, so each action below is the code between    *)
(* two awaits.                                                             *)
(***************************************************************************)
\* the user_id query parameter of a connection: missing, or one of two ids
QueryParams == {NoneStr, SomeStr("u1"), SomeStr("test_user")}

\* self.active_sessions.get(user_id, 0)
SessionCount(sessions, user) ==
    IF user \in DOMAIN sessions THEN sessions[user] ELSE 0

\* RateLimiter.start_session (lines 58-61)
start_session(sessions, user) ==
    [u \in DOMAIN sessions \cup {user} |->
        IF u = user THEN SessionCount(sessions, user) + 1 ELSE sessions[u]]

\* RateLimiter.end_session (lines 63-69)
end_session_Skip(sessions, user) == sessions
end_session(sessions, user) ==
    IF user \notin DOMAIN sessions THEN sessions
    ELSE IF Max(0, sessions[user] - 1) = 0
         THEN [u \in DOMAIN sessions \ {user} |-> sessions[u]]
         ELSE [sessions EXCEPT ![user] = Max(0, sessions[user] - 1)]

\* lines 142-146: the finally block of the handler
Finally(c) ==
    /\ active_sessions' = end_session(active_sessions, user_id[c])
    /\ ended' = [ended EXCEPT ![c] = @ + 1]
    /\ hpc' = [hpc EXCEPT ![c] = "ended"]

\* line 16 raises: the handshake failed before the try block was entered
AcceptFails(c) ==
    /\ hpc[c] = "new"
    /\ hpc' = [hpc EXCEPT ![c] = "refused"]
    /\ UNCHANGED <<active_sessions, user_id, closed, started, ended>>
    /\ UNCHANGED <<varsA, varsB, varsC, varsD>>

\* lines 16-60: the handshake is accepted, the user id is taken from the
\* query parameters, the session is counted, the idle checker is started and
\* the handler waits for the first message
Accept(c, query) ==
    /\ hpc[c] = "new"
    /\ \E user \in {IF query.present THEN query.v ELSE "test_user"} :
         /\ user_id' = [user_id EXCEPT ![c] = user]
         /\ active_sessions' = start_session(active_sessions, user)
    /\ started' = [started EXCEPT ![c] = @ + 1]
    /\ hpc' = [hpc EXCEPT ![c] = "receiving"]
    /\ UNCHANGED <<closed, ended>>
    /\ UNCHANGED <<varsA, varsB, varsC, varsD>>

\* lines 60-119: a message arrives and its turn begins (transcription, the
\* streamed answer: the handler awaits inside the inner try)
ReceiveText(c) ==
    /\ hpc[c] = "receiving"
    /\ ~closed[c]
    /\ hpc' = [hpc EXCEPT ![c] = "processing"]
    /\ UNCHANGED <<active_sessions, user_id, closed, started, ended>>
    /\ UNCHANGED <<varsA, varsB, varsC, varsD>>

\* lines 96-97, 121-126: the turn is over (nothing to answer, the answer was
\* streamed, or the message was not JSON) and the handler waits again
TurnDone(c) ==
    /\ hpc[c] = "processing"
    /\ hpc' = [hpc EXCEPT ![c] = "receiving"]
    /\ UNCHANGED <<active_sessions, user_id, closed, started, ended>>
    /\ UNCHANGED <<varsA, varsB, varsC, varsD>>

\* lines 127-129: the turn raised, the error message was sent to the client
\* and the handler waits again
TurnError(c) ==
    /\ hpc[c] = "processing"
    /\ ~closed[c]
    /\ hpc' = [hpc EXCEPT ![c] = "receiving"]
    /\ UNCHANGED <<active_sessions, user_id, closed, started, ended>>
    /\ UNCHANGED <<varsA, varsB, varsC, varsD>>

\* lines 129, 136-139: the turn raised and the error message could not be
\* sent; the exception leaves the loop and the handler closes the socket
\* with code 1011
InternalError(c) ==
    /\ hpc[c] = "processing"
    /\ hpc' = [hpc EXCEPT ![c] = "closing"]
    /\ UNCHANGED <<active_sessions, user_id, closed, started, ended>>
    /\ UNCHANGED <<varsA, varsB, varsC, varsD>>

\* lines 139-146: the close attempt is over (its own failure is swallowed)
CloseDone(c) ==
    /\ hpc[c] = "closing"
    /\ Finally(c)
    /\ UNCHANGED <<user_id, closed, started>>
    /\ UNCHANGED <<varsA, varsB, varsC, varsD>>

\* lines 60, 131-132, 142-146: receive_text raises WebSocketDisconnect, the
\* client having left or the idle checker having closed the socket
ClientDisconnect(c) ==
    /\ hpc[c] = "receiving"
    /\ Finally(c)
    /\ UNCHANGED <<user_id, closed, started>>
    /\ UNCHANGED <<varsA, varsB, varsC, varsD>>

\* lines 38-50: the idle checker finds the connection inactive for more than
\* IDLE_TIMEOUT, sends the timeout message and closes the socket
CheckIdle(c) ==
    /\ hpc[c] \in {"receiving", "processing"}
    /\ ~closed[c]
    /\ closed' = [closed EXCEPT ![c] = TRUE]
    /\ UNCHANGED <<active_sessions, hpc, user_id, started, ended>>
    /\ UNCHANGED <<varsA, varsB, varsC, varsD>>

\* the handler's task is cancelled while it awaits (server shutdown):
\* CancelledError passes the except clauses and the finally block runs
Cancelled(c) ==
    /\ hpc[c] \in {"receiving", "processing", "closing"}
    /\ Finally(c)
    /\ UNCHANGED <<user_id, closed, started>>
    /\ UNCHANGED <<varsA, varsB, varsC, varsD>>

InitTutor == IdleA /\ IdleB /\ IdleC /\ IdleD /\ InitE

NextTutor ==
    \/ \E c \in Conns : AcceptFails(c)
    \/ \E c \in Conns, query \in QueryParams : Accept(c, query)
    \/ \E c \in Conns : ReceiveText(c)
    \/ \E c \in Conns : TurnDone(c)
    \/ \E c \in Conns : TurnError(c)
    \/ \E c \in Conns : InternalError(c)
    \/ \E c \in Conns : CloseDone(c)
    \/ \E c \in Conns : ClientDisconnect(c)
    \/ \E c \in Conns : CheckIdle(c)
    \/ \E c \in Conns : Cancelled(c)

SpecTutor == InitTutor /\ [][NextTutor]_vars

(***************************************************************************)
(* Part A - properties                                                     *)
(***************************************************************************)
FailedDims == {d \in Dims : task[d] \in Failed}

MetricOf(d) ==
    CASE d = "grammar"       -> metrics.grammar_score
      [] d = "vocabulary"    -> metrics.vocabulary_score
      [] d = "fluency"       -> metrics.fluency_score
      [] d = "pronunciation" -> metrics.pronunciation_score

Clamp(x) == Min(Max(x, 0), 100)

\* C1: when a non-empty proper subset of the four analyzer tasks fails or
\* times out, the call still ends with a result, each failed dimension's
\* sub-score in the metrics is the neutral default 50, and the overall score
\* is the weighted sum that contains those defaults.
C1_PartialFailureStillYieldsResult ==
    (pc = "end" /\ configured /\ FailedDims # {} /\ FailedDims # Dims) =>
        /\ outcome = "response"
        /\ \A d \in FailedDims : MetricOf(d) = 50
        /\ metrics.overall100 =
             Overall100(metrics.grammar_score, metrics.vocabulary_score,
                        metrics.fluency_score, metrics.pronunciation_score)

\* C2: a configured analyze() call always ends by returning a complete
\* result (the synthesized response or the fallback response); no exception
\* reaches the caller.
C2_ConfiguredCallReturnsResult ==
    (configured /\ pc = "end") => outcome \in {"response", "fallback"}

\* C3: when all four analyzer tasks fail, the call returns the fallback
\* response (all five scores 50) and neither raises nor goes on into
\* verification and synthesis.
C3_AllFailedTakesFallback ==
    (configured /\ pc \in {"verify", "end"} /\ FailedDims = Dims) =>
        /\ pc = "end"
        /\ outcome = "fallback"
        /\ metrics = FallbackMetrics

\* C4: synthesis never begins before all four analyzer tasks have settled:
\* the verification stage is entered, and _synthesize_scores is entered, only
\* with every task settled (its result or its exception).
C4_SynthesisAfterAllSettled ==
    /\ pc = "verify" => \A d \in Dims : task[d] \in Settled
    /\ metrics.set => \A d \in Dims : synthSaw[d] \in Settled

\* C4 witness: synthesis ran over a mix of successful and failed analyzers.
C4_Witness ==
    /\ metrics.set
    /\ synthSaw["grammar"] = "timeout"
    /\ synthSaw["vocabulary"] = "failed"
    /\ synthSaw["fluency"] = "ok"
    /\ synthSaw["pronunciation"] = "ok"

\* C5: the metrics report the four dimension scores computed for the request
\* (classifier's overall_grammar, analyzer's overall_vocabulary, the fluency
\* and pronunciation analyzers' scores, each limited to 0..100) and the
\* overall score is 0.25*grammar + 0.20*vocabulary + 0.25*fluency +
\* 0.30*pronunciation of them.
C5_OverallIsWeightedSumOfDimensionScores ==
    (metrics.set /\ outcome # "fallback") =>
        LET g == Clamp(grammar_data.overall_grammar)
            v == Clamp(vocab_data.overall_vocabulary)
            f == Clamp(HandledData("fluency").fluency_score)
            p == Clamp(HandledData("pronunciation").pronunciation_score)
        IN /\ metrics.grammar_score = g
           /\ metrics.vocabulary_score = v
           /\ metrics.fluency_score = f
           /\ metrics.pronunciation_score = p
           /\ metrics.overall100 = Overall100(g, v, f, p)

\* indices of all_errors whose validity check answered "not valid"
InvalidIdx == {i \in 1..Len(verdicts) : verdicts[i] = "invalid"}

\* C6: corrections judged invalid are dropped before scoring: once
\* verification is over, the grammar score carries no penalty for a correction
\* whose check answered "not valid", and no such correction is in the
\* verified list the response's errors are built from.
C6_InvalidCorrectionsDroppedBeforeScoring ==
    (pc = "end" /\ metrics.set /\ outcome # "fallback") =>
        /\ grammar_data.overall_grammar =
             GrammarScore(FilterSeq(all_errors, (1..Len(all_errors)) \ InvalidIdx),
                          HandledData("grammar").sentence_structures)
        /\ Len(verified_errors) <= Len(all_errors) - Cardinality(InvalidIdx)

\* C7: a check that raises or times out keeps the correction, and a checked
\* correction is removed only when its check completed and answered "not
\* valid": the verified list is the visited corrections minus the skipped
\* ones and minus those answered "not valid".
C7_RemovedOnlyWhenAnsweredInvalid ==
    verified_errors =
        FilterSeq(SubSeq(all_errors, 1, Len(verdicts)),
                  {i \in 1..Len(verdicts) : verdicts[i] \notin {"skipped", "invalid"}})

\* a correction with an empty side, or whose two sides agree once case and
\* surrounding whitespace are ignored
ChangesNothing(error) ==
    \/ Len(error.original) = 0
    \/ Len(error.corrected) = 0
    \/ Lower(Strip(error.original)) = Lower(Strip(error.corrected))

\* C28: the verified list is an order-preserving sub-sequence of the first
\* ten input corrections; the loop never visits an entry beyond the tenth;
\* a correction with an empty side or with equal sides (ignoring case and
\* surrounding whitespace) gets no validity check and is never in the list.
C28_VerifiedIsSubsequenceOfFirstTen ==
    /\ Len(verdicts) <= 10
    /\ \E kept \in SUBSET (1..Min(Len(all_errors), 10)) :
           verified_errors = FilterSeq(all_errors, kept)
    /\ \A i \in 1..Len(verdicts) :
           ChangesNothing(all_errors[i]) => verdicts[i] = "skipped"
    /\ \A i \in 1..Len(verified_errors) : ~ChangesNothing(verified_errors[i])

\* eleven corrections were handed in, the tenth and the eleventh both worth
\* checking: the loop is over, the tenth was checked and kept, the eleventh
\* was left out
C28_Witness ==
    /\ pc = "end"
    /\ Len(all_errors) = 11
    /\ ~ChangesNothing(all_errors[10]) /\ ~ChangesNothing(all_errors[11])
    /\ Len(verdicts) = 10
    /\ verdicts[10] = "valid"
    /\ verified_errors = << all_errors[10] >>


(***************************************************************************)
(* Part B - properties                                                     *)
(***************************************************************************)
\* no two entries of the list agree on both pattern_name and word
NoRepeatedPattern(patterns) ==
    \A i, j \in 1..Len(patterns) :
        (/\ patterns[i].pattern_name = patterns[j].pattern_name
         /\ patterns[i].word = patterns[j].word) => i = j

\* C8: whichever of the phoneme-pass and text-pass outputs are present, the
\* pattern list of the merged report never holds two entries with the same
\* (pattern name, word) pair, and neither does the pattern list that the
\* phoneme pass or the text pass returns on its own.
C8_NoRepeatedPatternKey ==
    /\ merged.present => NoRepeatedPattern(merged.v.indian_english_patterns)
    /\ phoneme_insights.present =>
           NoRepeatedPattern(phoneme_insights.v.indian_english_patterns)
    /\ text_insights.present =>
           NoRepeatedPattern(text_insights.v.indian_english_patterns)

\* both passes reported the same (pattern name, word) pair and the merge kept
\* one entry of the two
C8_Witness ==
    /\ merged.present /\ phoneme_insights.present /\ text_insights.present
    /\ \E i \in 1..Len(phoneme_insights.v.indian_english_patterns),
          j \in 1..Len(text_insights.v.indian_english_patterns) :
         /\ phoneme_insights.v.indian_english_patterns[i].pattern_name
              = text_insights.v.indian_english_patterns[j].pattern_name
         /\ phoneme_insights.v.indian_english_patterns[i].word
              = text_insights.v.indian_english_patterns[j].word
    /\ Len(merged.v.indian_english_patterns)
         < Len(phoneme_insights.v.indian_english_patterns)
             + Len(text_insights.v.indian_english_patterns)

\* the three lists of a report are all empty
NothingListed(ins) ==
    /\ ins.critical_errors = <<>>
    /\ ins.minor_errors = <<>>
    /\ ins.indian_english_patterns = <<>>

\* C9: a finished soft-assessment call hands back a phonetic-insights report
\* only when the merged report lists at least one critical error, minor error
\* or pattern, and the report is then the merged one; with an empty transcript
\* or nothing detected phonetic_insights is None, never a report of three
\* empty lists.
C9_ReportOnlyWhenSomethingDetected ==
    spc = "done" =>
        /\ pi.present =>
               (merged.present /\ pi.v = merged.v /\ ~NothingListed(merged.v))
        /\ ~pi.present => (~merged.present \/ NothingListed(merged.v))
        /\ (sText = "" \/ Split(sText) = <<>>) => ~pi.present

\* a call on a transcript of two words ran both passes, found nothing and
\* handed back None
C9_Witness ==
    /\ spc = "done"
    /\ phoneme_insights.present /\ text_insights.present
    /\ merged.present /\ NothingListed(merged.v)
    /\ ~pi.present

\* a word as the recognizer reports it is clean: its own accuracy and that of
\* every phoneme reach the soft threshold and every phoneme's top-ranked
\* candidate is the expected phoneme
CleanWord(w) ==
    /\ w.accuracy_score >= SoftThreshold
    /\ \A k \in 1..Len(w.phonemes) :
         /\ w.phonemes[k].accuracy_score >= SoftThreshold
         /\ Len(w.phonemes[k].nbest) > 0
         /\ w.phonemes[k].nbest[1] = w.phonemes[k].phoneme

\* C10: a word whose every occurrence is clean is never listed in the
\* critical or minor errors of the phoneme pass, whatever its error kind and
\* its lower-ranked candidates are.
C10_CleanWordNeverFlagged ==
    phoneme_insights.present =>
        \A i \in 1..Len(sWordsIn) :
            (\A j \in 1..Len(sWordsIn) :
                 sWordsIn[j].word = sWordsIn[i].word => CleanWord(sWordsIn[j]))
            => sWordsIn[i].word \notin
                   ErrorWords(phoneme_insights.v.critical_errors)
                     \cup ErrorWords(phoneme_insights.v.minor_errors)


\* the score ranges of the two error lists of a report
ScoresInRange(ins) ==
    /\ \A i \in 1..Len(ins.critical_errors) :
           ins.critical_errors[i].score < CriticalThreshold
    /\ \A i \in 1..Len(ins.minor_errors) :
           /\ CriticalThreshold <= ins.minor_errors[i].score
           /\ ins.minor_errors[i].score < SoftThreshold

\* C12: in every report of the phoneme pass and of the merge, each critical
\* error has a score below 60 and each minor error a score from 60 up to, but
\* not including, 82.
C12_ErrorScoresInRange ==
    /\ phoneme_insights.present => ScoresInRange(phoneme_insights.v)
    /\ merged.present => ScoresInRange(merged.v)

\* the words the recognizer reports with error kind Omission only
OmittedWords ==
    { sWordsIn[i].word : i \in {j \in 1..Len(sWordsIn) :
          /\ sWordsIn[j].error_type = "Omission"
          /\ \A m \in 1..Len(sWordsIn) :
                sWordsIn[m].word = sWordsIn[j].word
                   => sWordsIn[m].error_type = "Omission"} }

\* C18: a word with error kind Omission is left out of the phoneme scan: the
\* phoneme pass lists no pattern, no critical and no minor error for it and
\* leaves its phonemes as they were built.
C18_OmittedWordNotScanned ==
    phoneme_insights.present =>
        /\ OmittedWords \cap
             (ErrorWords(phoneme_insights.v.indian_english_patterns)
                \cup ErrorWords(phoneme_insights.v.critical_errors)
                \cup ErrorWords(phoneme_insights.v.minor_errors)) = {}
        /\ \A i \in 1..Len(sWordsIn) :
              sWordsIn[i].error_type = "Omission"
                 => sWords[i].phonemes = sWordsIn[i].phonemes

\* every phoneme of the word list has is_correct set when actually_said is
\* unset
SaidWhenIncorrect(words_data) ==
    \A i \in 1..Len(words_data) :
        \A k \in 1..Len(words_data[i].phonemes) :
            ~words_data[i].phonemes[k].actually_said.present
               => words_data[i].phonemes[k].is_correct

\* C19: in every state of a PhonemeDetail, as constructed and after the
\* phoneme pass ran over it, is_correct is true whenever actually_said is
\* unset.
C19_UnsetSaidMeansCorrect ==
    SaidWhenIncorrect(sWordsIn) /\ SaidWhenIncorrect(sWords)

\* a phoneme built correct with nothing said (its top candidate is the
\* expected phoneme) was marked incorrect by the phoneme pass, and carries
\* the lower-ranked candidate as what was said
C19_Witness ==
    /\ phoneme_insights.present
    /\ \E i \in 1..Len(sWordsIn) : \E k \in 1..Len(sWordsIn[i].phonemes) :
         /\ sWordsIn[i].phonemes[k].is_correct
         /\ ~sWordsIn[i].phonemes[k].actually_said.present
         /\ ~sWords[i].phonemes[k].is_correct
         /\ sWords[i].phonemes[k].actually_said = SomeStr("v")

\* candidate c of phoneme p is the first, in rank order, that forms a named
\* pattern with the expected phoneme
FirstNamedAt(p, c) ==
    /\ InPatternMap(<<p.phoneme, p.nbest[c]>>)
    /\ PatternInfo(<<p.phoneme, p.nbest[c]>>).named
    /\ \A b \in 1..(c - 1) :
          ~(/\ InPatternMap(<<p.phoneme, p.nbest[b]>>)
            /\ PatternInfo(<<p.phoneme, p.nbest[b]>>).named)

\* the report lists the pattern of (expected, candidate c) for the word
PatternReported(ins, word, p, c) ==
    \E n \in 1..Len(ins.indian_english_patterns) :
        /\ ins.indian_english_patterns[n].word = word
        /\ ins.indian_english_patterns[n].pattern_name
             = PatternInfo(<<p.phoneme, p.nbest[c]>>).pattern_name

\* C20: for each phoneme the first candidate, in rank order, that forms a
\* named pattern with the expected phoneme has its pattern reported for the
\* word and is taken as what was said, also when it is ranked below the top
\* candidate and whatever the accuracy score is.
C20_FirstNamedCandidateWins ==
    phoneme_insights.present =>
        \A i \in 1..Len(sWordsIn) : \A k \in 1..Len(sWordsIn[i].phonemes) :
            \A c \in 1..Len(sWordsIn[i].phonemes[k].nbest) :
                FirstNamedAt(sWordsIn[i].phonemes[k], c) =>
                    /\ PatternReported(phoneme_insights.v, sWordsIn[i].word,
                                       sWordsIn[i].phonemes[k], c)
                    /\ sWords[i].phonemes[k].actually_said
                         = SomeStr(sWordsIn[i].phonemes[k].nbest[c])

\* "water" with expected w scored 100, top candidate w and second candidate v:
\* v_w_confusion is reported for "water"
C20_Witness ==
    /\ phoneme_insights.present
    /\ Len(sWordsIn) > 0
    /\ sWordsIn[1].word = "water"
    /\ Len(sWordsIn[1].phonemes) > 0
    /\ sWordsIn[1].phonemes[1].phoneme = "w"
    /\ sWordsIn[1].phonemes[1].accuracy_score = 100
    /\ sWordsIn[1].phonemes[1].nbest = <<"w", "v">>
    /\ \E n \in 1..Len(phoneme_insights.v.indian_english_patterns) :
         phoneme_insights.v.indian_english_patterns[n]
            = [word |-> "water", pattern_name |-> "v_w_confusion",
               hint |-> PatternInfo(<<"w", "v">>).hint]

\* the top candidate of phoneme p is the expected phoneme, or forms with it a
\* pair that PATTERN_MAP maps to None; no candidate forms a named pattern
AcceptedOrOverridden(p) ==
    /\ p.accuracy_score >= SoftThreshold
    /\ Len(p.nbest) > 0
    /\ \/ p.nbest[1] = p.phoneme
       \/ /\ InPatternMap(<<p.phoneme, p.nbest[1]>>)
          /\ ~PatternInfo(<<p.phoneme, p.nbest[1]>>).named
    /\ \A c \in 1..Len(p.nbest) : ~FirstNamedAt(p, c)

\* word w has no word-level error and each of its phonemes is accepted or
\* overridden, one of them by a pair mapped to None
OverrideWord(w) ==
    /\ w.error_type = "None"
    /\ \A k \in 1..Len(w.phonemes) : AcceptedOrOverridden(w.phonemes[k])
    /\ \E k \in 1..Len(w.phonemes) : w.phonemes[k].nbest[1] # w.phonemes[k].phoneme

\* C21: a pair that PATTERN_MAP maps to None is an acceptable override also
\* when PHONEME_EQUIVALENTS lacks it: a word whose phonemes are heard as such
\* pairs is given no pattern and is listed neither as critical nor as minor
\* error by the phoneme pass.
C21_NonePatternIsOverride ==
    phoneme_insights.present =>
        \A i \in 1..Len(sWordsIn) :
            (\A j \in 1..Len(sWordsIn) :
                 sWordsIn[j].word = sWordsIn[i].word => OverrideWord(sWordsIn[j]))
            => sWordsIn[i].word \notin
                   ErrorWords(phoneme_insights.v.indian_english_patterns)
                     \cup ErrorWords(phoneme_insights.v.critical_errors)
                     \cup ErrorWords(phoneme_insights.v.minor_errors)

\* what the merge received under key: the phoneme-pass list followed by the
\* text-pass list
Concatenated(key) ==
    SourceList(phoneme_insights, key) \o SourceList(text_insights, key)

\* the positions of list s that hold the first entry of their word
FirstOfWord(s) ==
    {i \in 1..Len(s) : \A j \in 1..(i - 1) : s[j].word # s[i].word}

\* C22: in the merged report critical_errors and minor_errors hold at most
\* one entry per word; the entry kept is the word's first one in the
\* phoneme-pass list followed by the text-pass list, and the kept entries
\* stay in that order.
C22_MergedErrorsFirstPerWord ==
    merged.present =>
        \A key \in {"critical_errors", "minor_errors"} :
            /\ \A i, j \in 1..Len(merged.v[key]) :
                   merged.v[key][i].word = merged.v[key][j].word => i = j
            /\ merged.v[key] = FilterSeq(Concatenated(key), FirstOfWord(Concatenated(key)))

\* the phoneme pass listed "water" twice as minor error, with scores 90 and
\* 70; the merged report keeps the first entry only
C22_Witness ==
    /\ merged.present /\ phoneme_insights.present
    /\ phoneme_insights.v.minor_errors
         = << [word |-> "water", score |-> 90], [word |-> "water", score |-> 70] >>
    /\ merged.v.minor_errors = << [word |-> "water", score |-> 90] >>

\* C23: the passes are pure: the phoneme pass leaves every input word and
\* phoneme observation as it was built (is_correct and actually_said
\* included), and the text pass's output is what the text alone determines.
C23_PassesLeaveInputsUnchanged ==
    /\ sWords = sWordsIn
    /\ text_insights.present
          => text_insights.v = _detect_text_mispronunciations(sText)

\* C26: in every report of the phoneme pass and of the merge, no word is in
\* both critical_errors and minor_errors.
C26_CriticalAndMinorDisjoint ==
    \A report \in {phoneme_insights, merged} :
        report.present =>
            ErrorWords(report.v.critical_errors)
                \cap ErrorWords(report.v.minor_errors) = {}

\* the phoneme pass of the call raised, returned None or was skipped
PhonemePassGaveNothing ==
    \/ sAzure # "recognized"
    \/ Len(sWordsIn) = 0
    \/ Len(Split(sText)) < 2

\* the positions of pattern list s that hold the first entry of their
\* pattern_name and word
FirstOfKey(s) ==
    {i \in 1..Len(s) : \A j \in 1..(i - 1) :
         PatternKey(s[j].pattern_name, s[j].word) # PatternKey(s[i].pattern_name, s[i].word)}

\* the findings of the text pass, each list without its repeats
DedupedTextFindings ==
    [critical_errors |-> FilterSeq(text_insights.v.critical_errors,
                                   FirstOfWord(text_insights.v.critical_errors)),
     minor_errors |-> FilterSeq(text_insights.v.minor_errors,
                                FirstOfWord(text_insights.v.minor_errors)),
     indian_english_patterns |->
         FilterSeq(text_insights.v.indian_english_patterns,
                   FirstOfKey(text_insights.v.indian_english_patterns))]

\* C27: when the phoneme pass of a soft-assessment call raises, returns None
\* or is skipped, the call still completes, the text pass has run, and the
\* report returned is the deduplicated findings of the text pass, or None when
\* the text pass found nothing.
C27_TextPassSurvivesPhonemePass ==
    (spc = "done" /\ Len(Split(sText)) >= 1 /\ PhonemePassGaveNothing) =>
        /\ text_insights.present
        /\ pi = IF \E key \in DOMAIN DedupedTextFindings :
                       Len(DedupedTextFindings[key]) > 0
                THEN SomeInsights(DedupedTextFindings)
                ELSE NoInsights

\* the recognizer raised during the phoneme pass of "I tink dat"; the call
\* returned the findings of the text pass
C27_Witness ==
    /\ spc = "done"
    /\ sAzure = "raise"
    /\ sText = "I tink dat"
    /\ pi.present
    /\ Len(pi.v.indian_english_patterns) > 0
    /\ pi.v = text_insights.v

(***************************************************************************)
(* Part C - properties                                                     *)
(***************************************************************************)
\* C11: for every pair of PHONEME_EQUIVALENTS, _is_phoneme_acceptable is true
\* in both argument orders, and it is true of every phoneme with itself.
C11_AcceptableBothOrders ==
    (cpc = "done" /\ cfn = "_is_phoneme_acceptable" /\ carg.actually_said.present) =>
        ((\/ <<carg.expected, carg.actually_said.v>> \in PHONEME_EQUIVALENTS
          \/ <<carg.actually_said.v, carg.expected>> \in PHONEME_EQUIVALENTS
          \/ carg.expected = carg.actually_said.v)
         => cres = TRUE)

\* the call on a table pair of two different symbols answered true
C11_Witness ==
    /\ cpc = "done" /\ cfn = "_is_phoneme_acceptable"
    /\ carg.expected = "flap" /\ carg.actually_said = SomeStr("d")
    /\ cres = TRUE


\* C13: the grammar score of classify_errors lies in 0..100 for every number
\* of errors per tier and every list of sentence structures, and the
\* complexity bonus never exceeds 15; 20 Tier-1 errors give exactly 0, and no
\* error with the largest bonus gives exactly 100.
C13_GrammarScoreClamped ==
    (cpc = "done" /\ cfn = "classify_errors") =>
        /\ 0 <= cres.overall_grammar /\ cres.overall_grammar <= 100
        /\ cres.complexity_bonus <= 15
        /\ (carg.n1 >= 20 => cres.overall_grammar = 0)
        /\ ((carg.n1 + carg.n2 + carg.n3 = 0 /\ cres.complexity_bonus = 15)
              => cres.overall_grammar = 100)

\* 20 Tier-1 errors together with structures worth more than the cap of the
\* bonus: the penalty of 200 is floored at 0
C13_Witness ==
    /\ cpc = "done" /\ cfn = "classify_errors"
    /\ carg.n1 = 20 /\ carg.n2 = 0 /\ carg.n3 = 0
    /\ Len(carg.gemini_analysis.sentence_structures) = 3
    /\ cres.complexity_bonus = 15
    /\ cres.overall_grammar = 0


\* C14: for a fixed metric type the margin of error never grows when audio
\* quality and sample size grow: a call with no less quality and no smaller
\* sample reports no larger margin, also across the 20%-of-minimum boundary,
\* and every margin lies within 0..15.
C14_MarginMonotone ==
    (cpc = "done" /\ cfn = "_calculate_metric_confidence") =>
        /\ cres[2].margin10 <= cres[1].margin10
        /\ \A k \in {1, 2} : 0 <= cres[k].margin10 /\ cres[k].margin10 <= 150

\* two pronunciation calls at quality 95, the first with 5 s (under 20% of
\* the 30 s minimum, margin 13.8), the second with 6 s (at the boundary)
C14_Witness ==
    /\ cpc = "done" /\ cfn = "_calculate_metric_confidence"
    /\ carg.metric_type = "pronunciation"
    /\ carg.q1 = 95 /\ carg.q2 = 95 /\ carg.s1 = 5 /\ carg.s2 = 6
    /\ cres[1].margin10 = 138
    /\ cres[2].margin10 < cres[1].margin10


\* the k-th call of the pair is made with a sample under 20% of the minimum
UnderFifth(k) ==
    5 * (IF k = 1 THEN carg.s1 ELSE carg.s2) < MinSample(carg.metric_type)

\* the score (in tenths) of the k-th call is base confidence times half the
\* sample ratio, to the nearest tenth
HalvedScore(k) ==
    \E q \in {IF k = 1 THEN carg.q1 ELSE carg.q2},
       s \in {IF k = 1 THEN carg.s1 ELSE carg.s2},
       m \in {MinSample(carg.metric_type)} :
        /\ 2 * m * cres[k].score10 >= 10 * BaseConfidence(q) * s - m
        /\ 2 * m * cres[k].score10 <= 10 * BaseConfidence(q) * s + m

\* C15: a sample under 20% of the metric's minimum has its sample factor
\* multiplied by 0.5 on top of the ratio, gets level LOW whatever the audio
\* quality, and still yields a result; quality 95 with 5 s of pronunciation
\* audio gives score 7.9, level LOW and margin 13.8.
C15_TinySamplePenalised ==
    (cpc = "done" /\ cfn = "_calculate_metric_confidence") =>
        \A k \in {1, 2} :
            /\ UnderFifth(k) =>
                  /\ cres[k].level = "LOW"
                  /\ HalvedScore(k)
            /\ (carg.metric_type = "pronunciation"
                  /\ carg.q1 = 95 /\ carg.s1 = 5 /\ k = 1) =>
                  cres[k] = [level |-> "LOW", score10 |-> 79, margin10 |-> 138]

\* quality 95 with 5 s of pronunciation audio has been scored, next to a
\* 9 s sample at the same quality that is over the 20% boundary
C15_Witness ==
    /\ cpc = "done" /\ cfn = "_calculate_metric_confidence"
    /\ carg.metric_type = "pronunciation"
    /\ carg.q1 = 95 /\ carg.s1 = 5 /\ carg.q2 = 95 /\ carg.s2 = 9
    /\ UnderFifth(1) /\ ~UnderFifth(2)
    /\ cres[1].level = "LOW" /\ cres[1].score10 = 79
    /\ cres[2].score10 = 285


\* the text of the call has fewer than 5 alphabetic tokens
FewAlphaTokens == Len(AlphaLower(word_tokenize(carg.text))) < 5

\* C16: classify returns A1 for every text with fewer than 5 alphabetic
\* tokens, whatever the formula would give, and the score it reports for
\* such a text is not above the A1 cutoff.
C16_ShortTextIsA1 ==
    (cpc = "done" /\ cfn = "classify" /\ ~cres.raised /\ FewAlphaTokens) =>
        /\ cres.value.level = "A1"
        /\ FloatLeq(cres.value.score, FloatOfInt(cefr_a1_max_score))

\* four distinct words in one sentence, for which the formula gives 210,
\* have been classified A1 with score 10
C16_Witness ==
    /\ cpc = "done" /\ cfn = "classify" /\ ~cres.raised
    /\ carg.text = "I like green tea."
    /\ FewAlphaTokens
    /\ LevelOf(FormulaScore(AlphaLower(word_tokenize(carg.text)),
                            Len(word_tokenize(carg.text)),
                            SentenceCount(Split(carg.text)))) = "C2"
    /\ cres.value = [level |-> "A1", score |-> FloatOfInt(10)]


\* C25: _adjust_prosody is non-decreasing over 0..100, never returns more
\* than its input, and brings the top of the range close to 100: the raw
\* score 100 is adjusted to 95 or more.
C25_ProsodyCompression ==
    (cpc = "done" /\ cfn = "_adjust_prosody") =>
        /\ cres[1] <= cres[2]
        /\ cres[1] <= 100 * carg.p1
        /\ cres[2] <= 100 * carg.p2
        /\ carg.p2 = 100 => cres[2] >= 9500

(***************************************************************************)
(* Part D - properties                                                     *)
(***************************************************************************)
\* the latest call has returned a result
Analyzed == an_res # NoResult /\ ~an_res.raised

\* the latest call's sample offers no linking opportunity
NoLinkingOpportunity ==
    LinkOpportunities(_extract_phonemes(WordsOf(an_arg.azure_phoneme_data))) = {}

\* no reducible phrase occurs in the latest call's transcript
NoReductionOpportunity ==
    \A words \in {Split(Lower(an_arg.transcript))} :
        \A k \in 1..Len(REDUCTION_PATTERNS) :
            \A i \in 0..Len(words) :
                ~PhraseAt(words, Split(REDUCTION_PATTERNS[k].key), i)

\* the latest call's sample has fewer than two stressed words
NoStressInterval ==
    Len(StressedStarts(WordsOf(an_arg.azure_phoneme_data))) < 2

\* C17: analyze reports linking 70 when the sample offers no linking
\* opportunity, reduction 70 when it offers no reduction opportunity and
\* stress timing 50 when it has no inter-stress interval, for every sample,
\* one without word data included.
C17_DefaultsWithoutOpportunity ==
    Analyzed =>
        /\ NoLinkingOpportunity => an_res.breakdown.linking10 = 700
        /\ NoReductionOpportunity => an_res.breakdown.reduction10 = 700
        /\ NoStressInterval => an_res.breakdown.stress_timing10 = 500


\* the occurrences <<k, i>> of reducible phrase k at word i (from 0) of the
\* latest call's transcript
Occurrences ==
    UNION { { o \in (1..Len(REDUCTION_PATTERNS)) \X (0..Len(words)) :
                PhraseAt(words, Split(REDUCTION_PATTERNS[o[1]].key), o[2]) }
            : words \in {Split(Lower(an_arg.transcript))} }

\* the occurrences whose words took less than 150 ms each on average
ReducedOccurrences ==
    { o \in Occurrences :
        IsReduced(WordsOf(an_arg.azure_phoneme_data),
                  Split(REDUCTION_PATTERNS[o[1]].key), o[2]) }

\* C24: every occurrence of a reducible phrase in the transcript counts as
\* one opportunity and is reduced exactly when its words together took less
\* than 150 ms times their number; the reduction score is
\* reduced/opportunities*100, so "going to" spoken in 280 ms as the only
\* opportunity scores 100.
C24_ReductionScore ==
    (an_res # NoResult /\ WordsOf(an_arg.azure_phoneme_data) # <<>>
       /\ Occurrences # {}) =>
        /\ ~an_res.raised
        /\ an_res.breakdown.reduction10
             = RoundTenths(RatioScore(Cardinality(ReducedOccurrences),
                                      Cardinality(Occurrences)))


\* "w1 -> w2" for the neighbouring words of the latest call's word list
NeighbourPairs ==
    { WordsOf(an_arg.azure_phoneme_data)[i].Word \o " -> "
          \o WordsOf(an_arg.azure_phoneme_data)[i + 1].Word
      : i \in 1..(Len(WordsOf(an_arg.azure_phoneme_data)) - 1) }

\* "phrase -> reduced" for the reducible phrases of the latest call's
\* transcript
TranscriptReductions ==
    { REDUCTION_PATTERNS[o[1]].key \o " -> " \o REDUCTION_PATTERNS[o[1]].reduced
      : o \in Occurrences }

\* C29: whatever calls came before on the instance, the examples of a call's
\* result come from that call's input only: they are the examples a fresh
\* instance returns for the same arguments, every linking example joins two
\* neighbouring words of the call's word list, every reduction example names
\* a phrase of the call's transcript, the instance's lists are empty after a
\* call that returned the empty result, and each example list of the result
\* holds at most 3 entries.
C29_ExamplesFromThisCallOnly ==
    Analyzed =>
        /\ an_res.examples = AnalyzeOutcomes[an_arg].res.examples
        /\ \A i \in 1..Len(an_res.examples.linking_detected) :
               an_res.examples.linking_detected[i] \in NeighbourPairs
        /\ \A i \in 1..Len(an_res.examples.reductions_detected) :
               an_res.examples.reductions_detected[i] \in TranscriptReductions
        /\ WordsOf(an_arg.azure_phoneme_data) = <<>> =>
               linking_examples = <<>> /\ reduction_examples = <<>>
        /\ Len(an_res.examples.linking_detected) <= 3
        /\ Len(an_res.examples.reductions_detected) <= 3

\* "check it" said over and over linked more than three times: the instance
\* lists every link and the result shows the first three
C29_Witness ==
    /\ Analyzed
    /\ Len(linking_examples) > 3
    /\ an_res.examples.linking_detected
         = << "check -> it", "check -> it", "check -> it" >>
    /\ an_res.examples.reductions_detected = <<>>


(***************************************************************************)
(* Part E - properties                                                     *)
(***************************************************************************)
\* the connections whose handler has counted its session and not yet left
OpenConns == {c \in Conns : hpc[c] \in {"receiving", "processing", "closing"}}

\* C30: in every interleaving of the connections' handlers, a handler calls
\* start_session once when its connection opens and end_session once when it
\* leaves, however it leaves; a user's count is the number of that user's
\* open connections, no count is negative, and the dict holds no entry with
\* count zero.
C30_SessionCountMatchesOpenConnections ==
    /\ \A c \in Conns :
         /\ hpc[c] \in {"new", "refused"} => started[c] = 0 /\ ended[c] = 0
         /\ c \in OpenConns => started[c] = 1 /\ ended[c] = 0
         /\ hpc[c] = "ended" => started[c] = 1 /\ ended[c] = 1
    /\ \A user \in {"test_user", "u1"} :
         SessionCount(active_sessions, user)
             = Cardinality({c \in OpenConns : user_id[c] = user})
    /\ \A user \in DOMAIN active_sessions : active_sessions[user] > 0

\* two connections of user u1 are open; a connection of test_user was closed
\* by the idle checker and has left, and test_user's entry is gone
C30_Witness ==
    /\ DOMAIN active_sessions = {"u1"}
    /\ active_sessions["u1"] = 2
    /\ \E c \in Conns :
         /\ hpc[c] = "ended" /\ closed[c] /\ user_id[c] = "test_user"
         /\ started[c] = 1 /\ ended[c] = 1

====
